---- MODULE Spec2Model ----
(***************************************************************************)
(* GrantCraft reviewer: the signal registry (src/lib/reviewer/signals.ts), *)
(* its confidence model and evidence collection, the rubric aggregation    *)
(* described in spec.md section 4.3, the review page, the draft store      *)
(* (src/lib/drafts/store.ts) and the route POST /api/improve.              *)
(*                                                                         *)
(* Numbers.  The code computes with IEEE doubles; the model computes with  *)
(* exact rationals <<numerator, denominator>> in lowest terms, so 0.22 is  *)
(* <<11, 50>> and a confidence n/S keeps its exact value.  Signal weights  *)
(* are kept in hundredths (0.22 is 22).                                    *)
(*                                                                         *)
(* Text.  A draft is a sequence of lines; its text is the lines' characters*)
(* joined by "\n".  Lines are drawn from a fixed vocabulary of concrete    *)
(* lines.  What each regular expression of signals.ts matches on each      *)
(* vocabulary line (the 0-based columns where its matches start, as the    *)
(* /g scan finds them left to right without overlap) is tabulated in Hits. *)
(* On every draft built from the vocabulary no pattern matches across a    *)
(* line break, so the matches of a draft are the matches of its lines.     *)
(* Characters outside ASCII are written "U+XXXX" (one UTF-16 unit each).   *)
(***************************************************************************)
EXTENDS Integers, Sequences, FiniteSets, TLC

VARIABLES
  satArgs,      \* SpecSat: the arguments [n, S] of the sat call under study
  satOut,       \* SpecSat: [prev, cur]: what the call before returned, and this one
  registry,     \* SpecRegistry: the SIGNALS array the module was built with
  moduleState,  \* SpecRegistry: "unloaded" | "loaded" | "failed"
  warnings,     \* SpecRegistry: criteria console.warn was called for at load
  lookup,       \* SpecRegistry: outcome of the last lookup call, or NoCall
  draft,        \* Spec, SpecScore: the document, a sequence of line ids
  pool,         \* Spec: lastIndex of RegExp objects that outlive a check call
  call,         \* Spec: the last check call [signal, result, before], or NoCall
  checks,       \* SpecScore: what every signal's check(draft) returned, by id
  report,       \* SpecScore: the ReviewerReport of draft, or NoReport
  storage,      \* the browser's localStorage: key :> stored JSON value
  clock,        \* what new Date() returns next
  storeCall,    \* the last call of lib/drafts/store.ts [op, ...], or NoCall
  page,         \* the review page [draftId, status, report, errorMsg, draftTitle], or NoPage
  fetches,      \* the requests the review page has sent
  improve,      \* POST /api/improve: [stage, request, upstream, response, served]
  editor        \* the editor page: its state, pending save timer and requests in flight

reviewerVars == <<satArgs, satOut, registry, moduleState, warnings, lookup, draft, pool, call,
                  checks, report>>

appVars == <<storage, clock, storeCall, page, fetches, improve, editor>>

vars == <<reviewerVars, appVars>>

-----------------------------------------------------------------------------
(* Bounds of the model *)

MaxLines == 4
MaxRubricLines == 3
MaxSaturation == 10

-----------------------------------------------------------------------------
(* Exact rational arithmetic standing for the code's number type *)

RECURSIVE GCD(_, _)
GCD(a, b) == IF b = 0 THEN a ELSE GCD(b, a % b)

Abs(x) == IF x < 0 THEN -x ELSE x

\* n/d in lowest terms, d > 0
Rat(n, d) ==
  LET g == GCD(Abs(n), d)
  IN  IF n = 0 THEN <<0, 1>> ELSE <<n \div g, d \div g>>

Zero == <<0, 1>>
One  == <<1, 1>>

RAdd(x, y) == Rat(x[1] * y[2] + y[1] * x[2], x[2] * y[2])
RMul(x, y) == Rat(x[1] * y[1], x[2] * y[2])
RLeq(x, y) == x[1] * y[2] <= y[1] * x[2]
RLt(x, y)  == x[1] * y[2] < y[1] * x[2]
RMin(x, y) == IF RLeq(x, y) THEN x ELSE y
RMax(x, y) == IF RLeq(x, y) THEN y ELSE x

RECURSIVE RSum(_)
RSum(xs) == IF xs = <<>> THEN Zero ELSE RAdd(Head(xs), RSum(Tail(xs)))

\* floor of a rational
RFloor(x) == x[1] \div x[2]

\* Math.round: the nearest integer, a tie going up
MathRound(x) == RFloor(RAdd(x, Rat(1, 2)))

-----------------------------------------------------------------------------
(* Confidence model *)

\* a sat() that forgets the cap
sat_uncapped(matchCount, saturation) ==
  IF matchCount <= 0 THEN Zero ELSE Rat(matchCount, saturation)

\* signals.ts:87-90
sat(matchCount, saturation) ==
  IF matchCount <= 0 THEN Zero ELSE RMin(One, Rat(matchCount, saturation))

-----------------------------------------------------------------------------
(* The vocabulary of lines *)

Fill(c, n) == [i \in 1..n |-> c]
Chars_EX ==
  <<
    "O", "b", "j", "e", "c", "t", "i", "v", "e", "s", " ", "O", "1", ":", " ", "s", "e", "n",
    "s", "o", "r", ",", " ", "O", "2", ":", " ", "p", "i", "l", "o", "t", ",", " ", "O", "3",
    ":", " ", "u", "p", "t", "a", "k", "e", ",", " ", "O", "4", ":", " ", "s", "c", "a", "l",
    "e", ".", " ", "F", "r", "o", "m", " ", "T", "R", "L", " ", "3", " ", "t", "o", " ", "T",
    "R", "L", " ", "5", ".", " ", "M", "e", "t", "h", "o", "d", "o", "l", "o", "g", "y", ":",
    " ", "o", "u", "r", " ", "a", "p", "p", "r", "o", "a", "c", "h", " ", "w", "i", "l", "l",
    " ", "u", "s", "e", " ", "a", " ", "n", "o", "v", "e", "l", " ", "a", "l", "g", "o", "r",
    "i", "t", "h", "m", ",", " ", "m", "o", "d", "e", "l", " ", "a", "n", "d", " ", "f", "r",
    "a", "m", "e", "w", "o", "r", "k", " ", "t", "o", " ", "a", "d", "d", "r", "e", "s", "s",
    " ", "t", "h", "e", " ", "g", "a", "p", " ", "a", "n", "d", " ", "l", "i", "m", "i", "t",
    "a", "t", "i", "o", "n", "s", " ", "o", "f", " ", "t", "h", "e", " ", "s", "t", "a", "t",
    "e", " ", "o", "f", " ", "t", "h", "e", " ", "a", "r", "t", "."
  >>

Chars_IM ==
  <<
    "|", " ", "K", "P", "I", " ", "|", " ", "B", "a", "s", "e", "l", "i", "n", "e", " ", "|",
    " ", "T", "a", "r", "g", "e", "t", " ", "|", " ", "e", "x", "p", "l", "o", "i", "t", "a",
    "t", "i", "o", "n", " ", "p", "l", "a", "n", " ", "w", "i", "t", "h", " ", "I", "P", " ",
    "s", "t", "r", "a", "t", "e", "g", "y", " ", "a", "n", "d", " ", "p", "a", "t", "e", "n",
    "t", " ", "l", "i", "c", "e", "n", "s", "i", "n", "g", ";", " ", "d", "i", "s", "s", "e",
    "m", "i", "n", "a", "t", "i", "o", "n", " ", "v", "i", "a", " ", "o", "p", "e", "n", " ",
    "a", "c", "c", "e", "s", "s", " ", "p", "u", "b", "l", "i", "c", "a", "t", "i", "o", "n",
    "s", " ", "a", "n", "d", " ", "c", "o", "n", "f", "e", "r", "e", "n", "c", "e", "s", " ",
    "u", "n", "d", "e", "r", " ", "F", "A", "I", "R", " ", "d", "a", "t", "a", " ", "p", "r",
    "i", "n", "c", "i", "p", "l", "e", "s", ";", " ", "e", "x", "p", "e", "c", "t", "e", "d",
    " ", "o", "u", "t", "c", "o", "m", "e", " ", "f", "o", "r", " ", "s", "t", "a", "k", "e",
    "h", "o", "l", "d", "e", "r", "s", "."
  >>

Chars_PL ==
  <<
    "W", "P", "1", ",", " ", "W", "P", "2", ",", " ", "W", "P", "3", " ", "a", "n", "d", " ",
    "W", "P", "4", " ", "d", "e", "l", "i", "v", "e", "r", " ", "D", "2", ".", "1", ",", " ",
    "D", "3", ".", "2", " ", "a", "n", "d", " ", "D", "4", ".", "1", ";", " ", "M", "S", "1",
    " ", "(", "M", "1", "2", ")", " ", "a", "n", "d", " ", "M", "S", "2", ";", " ", "r", "i",
    "s", "k", " ", "r", "e", "g", "i", "s", "t", "e", "r", " ", "w", "i", "t", "h", " ", "l",
    "i", "k", "e", "l", "i", "h", "o", "o", "d", " ", "a", "n", "d", " ", "m", "i", "t", "i",
    "g", "a", "t", "i", "o", "n", ";", " ", "c", "o", "n", "s", "o", "r", "t", "i", "u", "m",
    " ", "p", "a", "r", "t", "n", "e", "r", "s", " ", "a", "r", "e", " ", "c", "o", "m", "p",
    "l", "e", "m", "e", "n", "t", "a", "r", "y", ";", " ", "G", "a", "n", "t", "t", " ", "c",
    "h", "a", "r", "t", " ", "M", "1", "-", "M", "1", "2", ";", " ", "s", "t", "e", "e", "r",
    "i", "n", "g", " ", "c", "o", "m", "m", "i", "t", "t", "e", "e", ";", " ", "p", "e", "r",
    "s", "o", "n", "-", "m", "o", "n", "t", "h", "s", "."
  >>

Chars_PLX ==
  <<
    "|", " ", "W", "P", "1", " ", "|", " ", "W", "P", "2", " ", "|", " ", "W", "P", "3", " ",
    "|", " ", "W", "P", "4", " ", "|", " ", "D", "1", ".", "1", " ", "D", "a", "t", "a", " ",
    "M", "a", "n", "a", "g", "e", "m", "e", "n", "t", " ", "P", "l", "a", "n", " ", "|", " ",
    "D", "2", ".", "1", " ", "|", " ", "M", "S", "1", " ", "(", "M", "1", "2", ")", " ", "|",
    " ", "M", "S", "2", " ", "(", "M", "2", "4", ")", " ", "|", " ", "P", "a", "r", "t", "n",
    "e", "r", " ", "|", " ", "S", "M", "E", " ", "|", " ", "r", "i", "s", "k", " ", "r", "e",
    "g", "i", "s", "t", "e", "r", ":", " ", "l", "i", "k", "e", "l", "i", "h", "o", "o", "d",
    ",", " ", "m", "i", "t", "i", "g", "a", "t", "i", "o", "n", " ", "|", " ", "c", "o", "n",
    "s", "o", "r", "t", "i", "u", "m", " ", "o", "f", " ", "p", "a", "r", "t", "n", "e", "r",
    "s", " ", "|", " ", "G", "a", "n", "t", "t", " ", "M", "1", "-", "M", "1", "2", " ", "|",
    " ", "p", "r", "o", "j", "e", "c", "t", " ", "c", "o", "o", "r", "d", "i", "n", "a", "t",
    "o", "r"
  >>

Chars_G ==
  <<
    "G", "a", "n", "t", "t", " ", "c", "h", "a", "r", "t", " ", "w", "i", "t", "h", " ", "c",
    "r", "i", "t", "i", "c", "a", "l", " ", "p", "a", "t", "h"
  >>

Chars_N ==
  <<
    "L", "o", "r", "e", "m", " ", "i", "p", "s", "u", "m", " ", "d", "o", "l", "o", "r", " ",
    "s", "i", "t", " ", "a", "m", "e", "t", "."
  >>

Chars_O1 ==
  <<
    "O", "1", ":", " ", "T", "o", " ", "d", "e", "v", "e", "l", "o", "p", " ", "a", " ", "n",
    "e", "w", " ", "s", "e", "n", "s", "o", "r"
  >>

Chars_O2 ==
  <<
    "-", " ", "O", "2", ":", " ", "T", "o", " ", "v", "a", "l", "i", "d", "a", "t", "e", " ",
    "a", "t", " ", "3", " ", "p", "i", "l", "o", "t", " ", "s", "i", "t", "e", "s"
  >>

Chars_H3 ==
  <<
    "#", "#", " ", "O", "b", "j", "e", "c", "t", "i", "v", "e", " ", "O", "3", ":", " ", "u",
    "p", "t", "a", "k", "e", " ", "b", "y", " ", "e", "n", "d", " ", "u", "s", "e", "r", "s"
  >>
Chars_KT ==
  <<
    "|", " ", "I", "n", "d", "i", "c", "a", "t", "o", "r", " ", "|", " ", "B", "a", "s", "e",
    "l", "i", "n", "e", " ", "|", " ", "T", "a", "r", "g", "e", "t", " ", "|"
  >>

Chars_KR ==
  <<
    "|", " ", "U", "p", "t", "a", "k", "e", " ", "|", " ", "1", "0", " ", "|", " ", "5", "0",
    " ", "|"
  >>

Chars_KP ==
  <<
    "K", "P", "I", ":", " ", "u", "p", "t", "a", "k", "e", " ", "U+2265", " ", "2", "0", " ",
    "%", " ", "o", "f", " ", "p", "i", "l", "o", "t", " ", "s", "i", "t", "e", "s"
  >>

Chars_KM ==
  <<
    "|", " ", "M", "e", "t", "r", "i", "c", " ", "|", " ", "T", "a", "r", "g", "e", "t", " ",
    "|"
  >>

Chars_KQ ==
  <<
    "D", "r", "o", "p", "o", "u", "t", " ", "U+2264", " ", "5", " ", "%", " ", "p", "e", "r",
    " ", "y", "e", "a", "r"
  >>
Chars_TP ==
  <<
    "A", "d", "v", "a", "n", "c", "e", " ", "f", "r", "o", "m", " ", "T", "R", "L", " ", "3",
    " ", "t", "o", " ", "T", "R", "L", " ", "5", "."
  >>

Chars_TQ ==
  <<
    "M", "a", "t", "u", "r", "i", "t", "y", ":", " ", "T", "R", "L", " ", "4", " ", "t", "o",
    "T", "R", "L", " ", "6", "."
  >>

Chars_TB ==
  <<
    "T", "h", "e", " ", "p", "r", "o", "t", "o", "t", "y", "p", "e", " ", "i", "s", " ", "a",
    "t", " ", "T", "R", "L", " ", "4", " ", "t", "o", "d", "a", "y", "."
  >>
Chars_O4 == <<"O", "4", ":", " ">>

\* two lines of 121 characters that differ only in their last character
Chars_LA == Chars_O4 \o Fill("a", 116) \o <<"A">>
Chars_LB == Chars_O4 \o Fill("a", 116) \o <<"B">>

LineChars ==
  ("EX" :> Chars_EX) @@ ("IM" :> Chars_IM) @@ ("PL" :> Chars_PL) @@ ("PLX" :> Chars_PLX) @@
  ("G" :> Chars_G) @@ ("N" :> Chars_N) @@ ("O1" :> Chars_O1) @@ ("O2" :> Chars_O2) @@
  ("H3" :> Chars_H3) @@ ("LA" :> Chars_LA) @@ ("LB" :> Chars_LB) @@
  ("KT" :> Chars_KT) @@ ("KR" :> Chars_KR) @@ ("KP" :> Chars_KP) @@
  ("KM" :> Chars_KM) @@ ("KQ" :> Chars_KQ) @@
  ("TP" :> Chars_TP) @@ ("TQ" :> Chars_TQ) @@ ("TB" :> Chars_TB)

\* the lines a draft is typed from, per specification
EvidenceLines == {"O1", "O2", "H3", "LA", "LB"}
RubricLines   == {"EX", "IM", "PL", "PLX", "G", "N"}
KpiLines      == {"KT", "KR", "KP", "KM", "KQ"}
TrlLines      == {"TP", "TQ", "TB", "N"}

-----------------------------------------------------------------------------
(* What the patterns of signals.ts match on the vocabulary.                *)
(* <<signal, "pN", line>> :> the columns where pN's matches start.         *)

Hits ==
  (<<"objectives_listed", "p1", "EX">> :> <<11, 23, 34, 46>>) @@
  (<<"objectives_listed", "p1", "O1">> :> <<0>>) @@
  (<<"objectives_listed", "p1", "O2">> :> <<2>>) @@
  (<<"objectives_listed", "p1", "H3">> :> <<13>>) @@
  (<<"objectives_listed", "p1", "LA">> :> <<0>>) @@
  (<<"objectives_listed", "p1", "LB">> :> <<0>>) @@
  (<<"objectives_listed", "p3", "H3">> :> <<3>>) @@
  (<<"trl_mentioned", "p1", "EX">> :> <<62, 71>>) @@
  (<<"trl_mentioned", "p1", "TP">> :> <<13, 22>>) @@
  (<<"trl_mentioned", "p1", "TQ">> :> <<10>>) @@
  (<<"trl_mentioned", "p1", "TB">> :> <<20>>) @@
  (<<"trl_mentioned", "p3", "EX">> :> <<62>>) @@
  (<<"trl_mentioned", "p3", "TP">> :> <<13>>) @@
  (<<"trl_mentioned", "p3", "TQ">> :> <<10>>) @@
  (<<"methodology_described", "p2", "EX">> :> <<78, 95>>) @@
  (<<"methodology_described", "p4", "EX">> :> <<121, 132, 142>>) @@
  (<<"methodology_described", "p5", "O2">> :> <<9>>) @@
  (<<"sota_gap_identified", "p1", "EX">> :> <<167>>) @@
  (<<"sota_gap_identified", "p2", "EX">> :> <<175>>) @@
  (<<"sota_gap_identified", "p4", "EX">> :> <<194>>) @@
  (<<"sota_gap_identified", "p6", "EX">> :> <<155>>) @@
  (<<"novelty_claim", "p2", "EX">> :> <<115>>) @@
  (<<"success_criteria", "p2", "KP">> :> <<12>>) @@
  (<<"success_criteria", "p2", "KQ">> :> <<8>>) @@
  (<<"outcomes_linked", "p1", "IM">> :> <<172>>) @@
  (<<"kpi_table", "p1", "IM">> :> <<0>>) @@
  (<<"kpi_table", "p1", "KT">> :> <<0>>) @@
  (<<"kpi_table", "p1", "KM">> :> <<0>>) @@
  (<<"kpi_table", "p2", "IM">> :> <<6>>) @@
  (<<"kpi_table", "p2", "KT">> :> <<12>>) @@
  (<<"kpi_table", "p3", "IM">> :> <<17>>) @@
  (<<"kpi_table", "p3", "KT">> :> <<23>>) @@
  (<<"kpi_table", "p3", "KM">> :> <<9>>) @@
  (<<"kpi_table", "p4", "IM">> :> <<2>>) @@
  (<<"kpi_table", "p4", "KP">> :> <<0>>) @@
  (<<"kpi_table", "p6", "KP">> :> <<12>>) @@
  (<<"kpi_table", "p6", "KQ">> :> <<8>>) @@
  (<<"kpi_table", "p7", "KR">> :> <<9>>) @@
  (<<"exploitation_plan", "p1", "IM">> :> <<28>>) @@
  (<<"exploitation_plan", "p3", "IM">> :> <<51>>) @@
  (<<"exploitation_plan", "p4", "IM">> :> <<67>>) @@
  (<<"exploitation_plan", "p5", "IM">> :> <<74>>) @@
  (<<"exploitation_plan", "p7", "IM">> :> <<28>>) @@
  (<<"dissemination_plan", "p1", "IM">> :> <<85>>) @@
  (<<"dissemination_plan", "p2", "IM">> :> <<115>>) @@
  (<<"dissemination_plan", "p3", "IM">> :> <<132>>) @@
  (<<"dissemination_plan", "p4", "IM">> :> <<103>>) @@
  (<<"stakeholders_named", "p1", "IM">> :> <<193>>) @@
  (<<"stakeholders_named", "p2", "H3">> :> <<27>>) @@
  (<<"stakeholders_named", "p6", "PLX">> :> <<95>>) @@
  (<<"open_access_commitment", "p1", "IM">> :> <<103>>) @@
  (<<"open_access_commitment", "p3", "IM">> :> <<150>>) @@
  (<<"dmp_referenced", "p2", "PLX">> :> <<31>>) @@
  (<<"dmp_referenced", "p3", "PLX">> :> <<26>>) @@
  (<<"work_packages_defined", "p1", "PL">> :> <<0, 5, 10, 18>>) @@
  (<<"work_packages_defined", "p1", "PLX">> :> <<2, 8, 14, 20>>) @@
  (<<"work_packages_defined", "p3", "PLX">> :> <<0, 6, 12, 18>>) @@
  (<<"work_packages_defined", "p4", "PLX">> :> <<0, 12>>) @@
  (<<"milestones_present", "p1", "PL">> :> <<51, 65>>) @@
  (<<"milestones_present", "p1", "PLX">> :> <<61, 73>>) @@
  (<<"milestones_present", "p3", "PL">> :> <<51>>) @@
  (<<"milestones_present", "p3", "PLX">> :> <<61, 73>>) @@
  (<<"deliverables_present", "p1", "PL">> :> <<30, 36, 45>>) @@
  (<<"deliverables_present", "p1", "PLX">> :> <<26, 54>>) @@
  (<<"deliverables_present", "p3", "PLX">> :> <<52>>) @@
  (<<"deliverables_present", "p4", "PLX">> :> <<26>>) @@
  (<<"gantt_or_timeline", "p1", "PL">> :> <<155>>) @@
  (<<"gantt_or_timeline", "p1", "PLX">> :> <<166>>) @@
  (<<"gantt_or_timeline", "p1", "G">> :> <<0>>) @@
  (<<"gantt_or_timeline", "p2", "PL">> :> <<167>>) @@
  (<<"gantt_or_timeline", "p2", "PLX">> :> <<172>>) @@
  (<<"gantt_or_timeline", "p4", "G">> :> <<17>>) @@
  (<<"risk_register", "p2", "PL">> :> <<70>>) @@
  (<<"risk_register", "p2", "PLX">> :> <<101>>) @@
  (<<"risk_register", "p3", "PL">> :> <<89>>) @@
  (<<"risk_register", "p3", "PLX">> :> <<116>>) @@
  (<<"risk_register", "p4", "PL">> :> <<104>>) @@
  (<<"risk_register", "p4", "PLX">> :> <<128>>) @@
  (<<"consortium_described", "p1", "PL">> :> <<116>>) @@
  (<<"consortium_described", "p1", "PLX">> :> <<141>>) @@
  (<<"consortium_described", "p2", "PL">> :> <<127>>) @@
  (<<"consortium_described", "p2", "PLX">> :> <<85, 155>>) @@
  (<<"consortium_described", "p3", "PLX">> :> <<83>>) @@
  (<<"consortium_described", "p4", "PL">> :> <<140>>) @@
  (<<"consortium_described", "p5", "PLX">> :> <<0>>) @@
  (<<"budget_justified", "p1", "PL">> :> <<195>>) @@
  (<<"management_structure", "p1", "PL">> :> <<175>>) @@
  (<<"management_structure", "p2", "PLX">> :> <<181>>)

\* matches of /\bWP(\d+)\b/g (signals.ts:556) per line: the digits captured
WpHits ==
  ("PL" :> <<"1", "2", "3", "4">>) @@
  ("PLX" :> <<"1", "2", "3", "4">>)

HitKeys == DOMAIN Hits

MatchCols(signal, name, line) ==
  IF <<signal, name, line>> \in HitKeys THEN Hits[<<signal, name, line>>] ELSE <<>>

WpLines == DOMAIN WpHits

WpDigits(line) == IF line \in WpLines THEN WpHits[line] ELSE <<>>

-----------------------------------------------------------------------------
(* Strings *)

NL == "\n"
WhiteSpace == {" ", "\t", "\n", "\r"}
Markers == {"#", "|", ">", "*", "-"}
Ellipsis == "U+2026"

\* the draft as one string: lines joined by "\n"
RECURSIVE Text(_)
Text(lines) ==
  IF lines = <<>> THEN <<>>
  ELSE IF Len(lines) = 1 THEN LineChars[lines[1]]
  ELSE LineChars[lines[1]] \o <<NL>> \o Text(Tail(lines))

\* String.prototype.lastIndexOf(c, from) for a one-character c; indices are
\* 0-based, from is clamped to the string
lastIndexOf(text, c, from) ==
  LET k    == IF from < 0 THEN 0 ELSE IF from > Len(text) - 1 THEN Len(text) - 1 ELSE from
      hits == {i \in 0..k : i < Len(text) /\ text[i + 1] = c}
  IN  IF hits = {} THEN -1 ELSE CHOOSE i \in hits : \A j \in hits : j <= i

\* String.prototype.indexOf(c, from)
indexOf(text, c, from) ==
  LET k    == IF from < 0 THEN 0 ELSE from
      hits == {i \in k..(Len(text) - 1) : text[i + 1] = c}
  IN  IF hits = {} THEN -1 ELSE CHOOSE i \in hits : \A j \in hits : i <= j

\* String.prototype.slice(start, end), 0 <= start, 0 <= end <= length
slice(text, start, end) == SubSeq(text, start + 1, end)

RECURSIVE TrimStart(_)
TrimStart(s) == IF s # <<>> /\ Head(s) \in WhiteSpace THEN TrimStart(Tail(s)) ELSE s

RECURSIVE TrimEnd(_)
TrimEnd(s) ==
  IF s # <<>> /\ s[Len(s)] \in WhiteSpace THEN TrimEnd(SubSeq(s, 1, Len(s) - 1)) ELSE s

trim(s) == TrimEnd(TrimStart(s))

RECURSIVE DropMarkers(_)
DropMarkers(s) == IF s # <<>> /\ Head(s) \in Markers THEN DropMarkers(Tail(s)) ELSE s

\* line.replace(/^[#|>*-]+\s*/, '')
StripLeadingMarkers(s) ==
  IF s # <<>> /\ Head(s) \in Markers THEN TrimStart(DropMarkers(s)) ELSE s

\* a getLine that cuts at maxLen instead of maxLen - 1
getLine_longcut(text, pos, maxLen) ==
  LET start == lastIndexOf(text, NL, pos - 1) + 1
      found == indexOf(text, NL, pos)
      end   == IF found = -1 THEN Len(text) ELSE found
      line  == StripLeadingMarkers(trim(slice(text, start, end)))
  IN  IF Len(line) <= maxLen THEN line ELSE slice(line, 0, maxLen) \o <<Ellipsis>>

\* signals.ts:71-79
getLine(text, pos, maxLen) ==
  LET start == lastIndexOf(text, NL, pos - 1) + 1
      found == indexOf(text, NL, pos)
      end   == IF found = -1 THEN Len(text) ELSE found
      line  == StripLeadingMarkers(trim(slice(text, start, end)))
  IN  IF Len(line) <= maxLen THEN line ELSE slice(line, 0, maxLen - 1) \o <<Ellipsis>>

-----------------------------------------------------------------------------
(* Regular expressions.  A RegExp object is [signal, name, lastIndex]:     *)
(* the pattern pN of a signal's check and the object's lastIndex.  The     *)
(* flags i and m are part of what Hits tabulates.                          *)

\* a regular-expression literal evaluated inside check(): a new object
Literal(signal, name) == [signal |-> signal, name |-> name, lastIndex |-> 0]

\* signals.ts:26-31: new RegExp(pat.source, flags): a new object, lastIndex 0
gRe(pat) == [signal |-> pat.signal, name |-> pat.name, lastIndex |-> 0]

\* where the matches of re start in the draft, left to right
RECURSIVE MatchIndexes(_, _, _)
MatchIndexes(lines, re, offset) ==
  IF lines = <<>> THEN <<>>
  ELSE LET cols == MatchCols(re.signal, re.name, Head(lines))
       IN  [i \in 1..Len(cols) |-> offset + cols[i]]
             \o MatchIndexes(Tail(lines), re, offset + Len(LineChars[Head(lines)]) + 1)

\* text.match(re) for a /g re: every match, whatever re.lastIndex was
match(lines, re) == MatchIndexes(lines, re, 0)

\* a count that returns after its first pattern
countMatches_first(lines, patterns) ==
  IF patterns = <<>> THEN 0 ELSE Len(match(lines, gRe(Head(patterns))))

\* signals.ts:37-44
RECURSIVE countMatches(_, _)
countMatches(lines, patterns) ==
  IF patterns = <<>> THEN 0
  ELSE Len(match(lines, gRe(Head(patterns)))) + countMatches(lines, Tail(patterns))

\* the matches re.exec() returns in turn from re.lastIndex on
ExecFrom(lines, re) ==
  LET all == match(lines, re)
  IN  SelectSeq(all, LAMBDA i : i >= re.lastIndex)

DefaultMaxLen == 120
DefaultMax == 3

\* signals.ts:58-65, the while loop over one pattern's matches.  acc is
\* [evidence, seen, full, lastIndex]: full once the early return was taken,
\* lastIndex where the RegExp object would resume: past the start of its last
\* match and before the next one (match lengths are not kept), 0 after the
\* exec that found nothing.
RECURSIVE ExecLoop(_, _, _, _)
ExecLoop(text, indexes, acc, max) ==
  IF indexes = <<>> THEN [acc EXCEPT !.lastIndex = 0]
  ELSE LET snippet == getLine(text, Head(indexes), DefaultMaxLen)
           after   == Head(indexes) + 1
       IN  IF snippet # <<>> /\ snippet \notin acc.seen
           THEN LET pushed == [evidence  |-> Append(acc.evidence, snippet),
                               seen      |-> acc.seen \cup {snippet},
                               full      |-> Len(acc.evidence) + 1 >= max,
                               lastIndex |-> after]
                IN  IF pushed.full THEN pushed ELSE ExecLoop(text, Tail(indexes), pushed, max)
           ELSE ExecLoop(text, Tail(indexes), [acc EXCEPT !.lastIndex = after], max)

\* signals.ts:54-66, the for loop over the RegExp objects res (already
\* prepared for exec).  Returns [evidence, seen, full, left]: left[i] is the
\* lastIndex res[i] is left with.
RECURSIVE ForEachPattern(_, _, _, _, _)
ForEachPattern(lines, text, res, acc, max) ==
  IF res = <<>> \/ acc.full THEN acc
  ELSE LET run == ExecLoop(text, ExecFrom(lines, Head(res)),
                           [evidence |-> acc.evidence, seen |-> acc.seen,
                            full |-> FALSE, lastIndex |-> Head(res).lastIndex], max)
       IN  ForEachPattern(lines, text, Tail(res),
                          [evidence |-> run.evidence, seen |-> run.seen, full |-> run.full,
                           left |-> Append(acc.left, run.lastIndex)], max)

\* a collection that scans the pattern families from the last to the first
collectEvidence_backwards(lines, patterns, max) ==
  LET res == [i \in 1..Len(patterns) |->
                [gRe(patterns[Len(patterns) + 1 - i]) EXCEPT !.lastIndex = 0]]
  IN  ForEachPattern(lines, Text(lines), res,
                     [evidence |-> <<>>, seen |-> {}, full |-> FALSE, left |-> <<>>], max).evidence

\* signals.ts:50-68
collectEvidence(lines, patterns, max) ==
  LET res == [i \in 1..Len(patterns) |-> [gRe(patterns[i]) EXCEPT !.lastIndex = 0]]
  IN  ForEachPattern(lines, Text(lines), res,
                     [evidence |-> <<>>, seen |-> {}, full |-> FALSE, left |-> <<>>], max).evidence

-----------------------------------------------------------------------------
(* The registry.  Each entry carries, besides the fields of the Signal     *)
(* type, what its check() closure fixes: the patterns it counts, the       *)
(* patterns it collects evidence from (in that order), its saturation      *)
(* point, and the count below which its detail text is the "thin" one (0:  *)
(* the signal has no such text).  weight is in hundredths.                 *)

\* signals.ts:97-306
Excellence ==
  <<
    [id |-> "objectives_listed", criterion |-> "excellence", weight |-> 22, requiredForThreshold |-> TRUE,
     counted |-> <<"p1", "p2", "p3", "p4">>, evidenced |-> <<"p1", "p2", "p3", "p4">>, saturation |-> 5, detailBelow |-> 3],
    [id |-> "trl_mentioned", criterion |-> "excellence", weight |-> 12, requiredForThreshold |-> TRUE,
     counted |-> <<"p1", "p2">>, evidenced |-> <<"p3", "p1", "p2">>, saturation |-> 3, detailBelow |-> 0],
    [id |-> "methodology_described", criterion |-> "excellence", weight |-> 22, requiredForThreshold |-> TRUE,
     counted |-> <<"p1", "p2", "p3", "p4", "p5">>, evidenced |-> <<"p1", "p3", "p4", "p2">>, saturation |-> 8, detailBelow |-> 4],
    [id |-> "sota_gap_identified", criterion |-> "excellence", weight |-> 16, requiredForThreshold |-> TRUE,
     counted |-> <<"p1", "p2", "p3", "p4", "p5", "p6">>, evidenced |-> <<"p3", "p6", "p1", "p2">>, saturation |-> 6, detailBelow |-> 3],
    [id |-> "novelty_claim", criterion |-> "excellence", weight |-> 12, requiredForThreshold |-> FALSE,
     counted |-> <<"p1", "p2", "p3", "p4", "p5">>, evidenced |-> <<"p1", "p3", "p5", "p2">>, saturation |-> 4, detailBelow |-> 0],
    [id |-> "success_criteria", criterion |-> "excellence", weight |-> 10, requiredForThreshold |-> FALSE,
     counted |-> <<"p1", "p2", "p3", "p4", "p5", "p6">>, evidenced |-> <<"p2", "p3", "p4", "p6">>, saturation |-> 5, detailBelow |-> 3],
    [id |-> "alternative_approaches", criterion |-> "excellence", weight |-> 6, requiredForThreshold |-> FALSE,
     counted |-> <<"p1", "p2", "p3", "p4", "p5">>, evidenced |-> <<"p1", "p2", "p3", "p4">>, saturation |-> 3, detailBelow |-> 0]
  >>

\* signals.ts:308-533
Impact ==
  <<
    [id |-> "outcomes_linked", criterion |-> "impact", weight |-> 20, requiredForThreshold |-> TRUE,
     counted |-> <<"p1", "p2", "p3", "p4", "p5", "p6">>, evidenced |-> <<"p2", "p3", "p6", "p1">>, saturation |-> 5, detailBelow |-> 3],
    [id |-> "kpi_table", criterion |-> "impact", weight |-> 20, requiredForThreshold |-> TRUE,
     counted |-> <<"p1", "p2", "p3", "p4", "p5", "p6", "p7">>, evidenced |-> <<"p1", "p2", "p3", "p6">>, saturation |-> 6, detailBelow |-> 0],
    [id |-> "exploitation_plan", criterion |-> "impact", weight |-> 16, requiredForThreshold |-> TRUE,
     counted |-> <<"p1", "p2", "p3", "p4", "p5", "p6", "p7">>, evidenced |-> <<"p7", "p3", "p2", "p6">>, saturation |-> 5, detailBelow |-> 3],
    [id |-> "dissemination_plan", criterion |-> "impact", weight |-> 16, requiredForThreshold |-> TRUE,
     counted |-> <<"p1", "p2", "p3", "p4", "p5", "p6", "p7">>, evidenced |-> <<"p5", "p6", "p4", "p1">>, saturation |-> 7, detailBelow |-> 4],
    [id |-> "stakeholders_named", criterion |-> "impact", weight |-> 14, requiredForThreshold |-> FALSE,
     counted |-> <<"p1", "p2", "p3", "p4", "p5", "p6">>, evidenced |-> <<"p1", "p2", "p3", "p4">>, saturation |-> 5, detailBelow |-> 0],
    [id |-> "open_access_commitment", criterion |-> "impact", weight |-> 10, requiredForThreshold |-> TRUE,
     counted |-> <<"p1", "p2", "p3", "p4", "p5", "p6", "p7">>, evidenced |-> <<"p7", "p3", "p2", "p1">>, saturation |-> 4, detailBelow |-> 0],
    [id |-> "dmp_referenced", criterion |-> "impact", weight |-> 4, requiredForThreshold |-> FALSE,
     counted |-> <<"p1", "p2", "p3", "p4">>, evidenced |-> <<"p4", "p3", "p2", "p1">>, saturation |-> 3, detailBelow |-> 0]
  >>

\* signals.ts:535-775
Implementation ==
  <<
    [id |-> "work_packages_defined", criterion |-> "implementation", weight |-> 22, requiredForThreshold |-> TRUE,
     counted |-> <<"p1", "p2", "p3", "p4">>, evidenced |-> <<"p3", "p4", "p2", "p1">>, saturation |-> 10, detailBelow |-> 0],
    [id |-> "milestones_present", criterion |-> "implementation", weight |-> 14, requiredForThreshold |-> TRUE,
     counted |-> <<"p1", "p2", "p3", "p4">>, evidenced |-> <<"p3", "p4", "p1", "p2">>, saturation |-> 5, detailBelow |-> 0],
    [id |-> "deliverables_present", criterion |-> "implementation", weight |-> 14, requiredForThreshold |-> TRUE,
     counted |-> <<"p1", "p2", "p3", "p4">>, evidenced |-> <<"p4", "p3", "p1", "p2">>, saturation |-> 6, detailBelow |-> 0],
    [id |-> "gantt_or_timeline", criterion |-> "implementation", weight |-> 10, requiredForThreshold |-> FALSE,
     counted |-> <<"p1", "p2", "p3", "p4", "p5", "p6">>, evidenced |-> <<"p1", "p2", "p4", "p6">>, saturation |-> 4, detailBelow |-> 0],
    [id |-> "risk_register", criterion |-> "implementation", weight |-> 14, requiredForThreshold |-> TRUE,
     counted |-> <<"p1", "p2", "p3", "p4", "p5", "p6">>, evidenced |-> <<"p2", "p5", "p3", "p4">>, saturation |-> 6, detailBelow |-> 0],
    [id |-> "consortium_described", criterion |-> "implementation", weight |-> 12, requiredForThreshold |-> TRUE,
     counted |-> <<"p1", "p2", "p3", "p4", "p5">>, evidenced |-> <<"p3", "p5", "p4", "p1">>, saturation |-> 6, detailBelow |-> 0],
    [id |-> "budget_justified", criterion |-> "implementation", weight |-> 8, requiredForThreshold |-> FALSE,
     counted |-> <<"p1", "p2", "p3", "p4", "p5">>, evidenced |-> <<"p4", "p2", "p1", "p3">>, saturation |-> 5, detailBelow |-> 0],
    [id |-> "management_structure", criterion |-> "implementation", weight |-> 6, requiredForThreshold |-> FALSE,
     counted |-> <<"p1", "p2", "p3", "p4", "p5", "p6">>, evidenced |-> <<"p1", "p2", "p5", "p4">>, saturation |-> 4, detailBelow |-> 0]
  >>

\* a registry that lost its last entry
SIGNALS_short == Excellence \o Impact \o SubSeq(Implementation, 1, Len(Implementation) - 1)

\* a registry whose implementation signals lost their requiredForThreshold
\* flag, all but the first
SIGNALS_lax ==
  Excellence \o Impact \o
    [i \in 1..Len(Implementation) |->
       [Implementation[i] EXCEPT !.requiredForThreshold = (i = 1)]]

\* signals.ts:96-776
SIGNALS == Excellence \o Impact \o Implementation
\* the regular expressions p1, p2, ... each check() declares
PatternNames ==
  ("objectives_listed" :> {"p1", "p2", "p3", "p4"}) @@
  ("trl_mentioned" :> {"p1", "p2", "p3"}) @@
  ("methodology_described" :> {"p1", "p2", "p3", "p4", "p5"}) @@
  ("sota_gap_identified" :> {"p1", "p2", "p3", "p4", "p5", "p6"}) @@
  ("novelty_claim" :> {"p1", "p2", "p3", "p4", "p5"}) @@
  ("success_criteria" :> {"p1", "p2", "p3", "p4", "p5", "p6"}) @@
  ("alternative_approaches" :> {"p1", "p2", "p3", "p4", "p5"}) @@
  ("outcomes_linked" :> {"p1", "p2", "p3", "p4", "p5", "p6"}) @@
  ("kpi_table" :> {"p1", "p2", "p3", "p4", "p5", "p6", "p7"}) @@
  ("exploitation_plan" :> {"p1", "p2", "p3", "p4", "p5", "p6", "p7"}) @@
  ("dissemination_plan" :> {"p1", "p2", "p3", "p4", "p5", "p6", "p7"}) @@
  ("stakeholders_named" :> {"p1", "p2", "p3", "p4", "p5", "p6"}) @@
  ("open_access_commitment" :> {"p1", "p2", "p3", "p4", "p5", "p6", "p7"}) @@
  ("dmp_referenced" :> {"p1", "p2", "p3", "p4"}) @@
  ("work_packages_defined" :> {"p1", "p2", "p3", "p4"}) @@
  ("milestones_present" :> {"p1", "p2", "p3", "p4"}) @@
  ("deliverables_present" :> {"p1", "p2", "p3", "p4"}) @@
  ("gantt_or_timeline" :> {"p1", "p2", "p3", "p4", "p5", "p6"}) @@
  ("risk_register" :> {"p1", "p2", "p3", "p4", "p5", "p6"}) @@
  ("consortium_described" :> {"p1", "p2", "p3", "p4", "p5"}) @@
  ("budget_justified" :> {"p1", "p2", "p3", "p4", "p5"}) @@
  ("management_structure" :> {"p1", "p2", "p3", "p4", "p5", "p6"})


Pats(s, names) == [i \in 1..Len(names) |-> Literal(s.id, names[i])]

\* const n = countMatches(draft, ...) of a check (basicMatches in trl_mentioned)
MatchCount(s, lines) == countMatches(lines, Pats(s, s.counted))

Has(s, lines, name) == countMatches(lines, <<Literal(s.id, name)>>) > 0

\* signals.ts:556
DistinctWPs(lines) ==
  Cardinality(UNION {{WpDigits(lines[k])[i] : i \in 1..Len(WpDigits(lines[k]))} : k \in 1..Len(lines)})

\* a condition that is taken to hold on every draft
Structured_always(s, lines) == TRUE

\* the condition a check rewards with a bonus and reports in its detail
Structured(s, lines) ==
  CASE s.id = "trl_mentioned"          -> Has(s, lines, "p3")
    [] s.id = "kpi_table"              -> Has(s, lines, "p2") /\ Has(s, lines, "p3")
    [] s.id = "open_access_commitment" -> Has(s, lines, "p1") /\ Has(s, lines, "p3")
    [] s.id = "dmp_referenced"         -> Has(s, lines, "p3")
    [] s.id = "milestones_present"     -> Has(s, lines, "p3")
    [] s.id = "deliverables_present"   -> Has(s, lines, "p4")
    [] s.id = "risk_register"          -> Has(s, lines, "p3") /\ Has(s, lines, "p4")
    [] s.id = "consortium_described"   -> Has(s, lines, "p3") \/ Has(s, lines, "p5")
    [] OTHER                           -> FALSE

\* a table bonus whose last branch repeats the middle one
kpi_table_bonus_slip(s, lines) ==
  IF Has(s, lines, "p2") /\ Has(s, lines, "p3") THEN Rat(3, 10) ELSE Rat(15, 100)

\* a table bonus that looks at the first column header only
kpi_table_bonus_flat(s, lines) ==
  IF Has(s, lines, "p1") THEN Rat(15, 100) ELSE Zero

\* signals.ts:365-368, tableBonus
kpi_table_bonus(s, lines) ==
  IF Has(s, lines, "p2") /\ Has(s, lines, "p3") THEN Rat(3, 10)
  ELSE IF Has(s, lines, "p1") THEN Rat(15, 100) ELSE Zero

\* signals.ts:556-557, the second saturation term of work_packages_defined
work_packages_bonus(lines) == RMul(sat(DistinctWPs(lines), 4), Rat(2, 10))

\* the term a check adds to sat(n, S) before it caps the sum at 1
Bonus(s, lines) ==
  CASE s.id = "trl_mentioned"          -> IF Structured(s, lines) THEN Rat(4, 10) ELSE Zero
    [] s.id = "kpi_table"              -> kpi_table_bonus(s, lines)
    [] s.id = "open_access_commitment" -> IF Structured(s, lines) THEN Rat(2, 10) ELSE Zero
    [] s.id = "dmp_referenced"         -> IF Structured(s, lines) THEN Rat(3, 10) ELSE Zero
    [] s.id = "work_packages_defined"  -> work_packages_bonus(lines)
    [] s.id = "milestones_present"     -> IF Structured(s, lines) THEN Rat(2, 10) ELSE Zero
    [] s.id = "deliverables_present"   -> IF Structured(s, lines) THEN Rat(15, 100) ELSE Zero
    [] s.id = "risk_register"          -> IF Structured(s, lines) THEN Rat(25, 100) ELSE Zero
    [] s.id = "consortium_described"   -> IF Structured(s, lines) THEN Rat(2, 10) ELSE Zero
    [] OTHER                           -> Zero

\* the checks that write Math.min(1.0, sat(n, S) + bonus) unconditionally
CappedSignals ==
  {"kpi_table", "open_access_commitment", "dmp_referenced", "work_packages_defined",
   "milestones_present", "deliverables_present", "risk_register", "consortium_described"}

\* a confidence that adds the bonus without capping the sum
Confidence_uncapped(s, lines, n) == RAdd(sat(n, s.saturation), Bonus(s, lines))

\* const confidence = ... of a check
Confidence(s, lines, n) ==
  LET base == sat(n, s.saturation)
  IN  IF s.id \in CappedSignals THEN RMin(One, RAdd(base, Bonus(s, lines)))
      ELSE IF s.id = "trl_mentioned" /\ Structured(s, lines)
           THEN RMin(One, RAdd(base, Bonus(s, lines)))
      ELSE base

\* const detail = ... of a check: which of its texts, and the numbers in it
Detail(s, lines, n) ==
      IF n = 0 THEN <<"none">>
      ELSE CASE s.id \in {"trl_mentioned", "open_access_commitment"} ->
                  IF Structured(s, lines) THEN <<"structured">> ELSE <<"unstructured", n>>
             [] s.id \in {"kpi_table", "milestones_present", "deliverables_present",
                          "risk_register", "consortium_described"} ->
                  IF Structured(s, lines) THEN <<"structured", n>> ELSE <<"unstructured", n>>
             [] s.id = "work_packages_defined" ->
                  IF DistinctWPs(lines) < 3 THEN <<"thin", DistinctWPs(lines), n>>
                  ELSE <<"good", DistinctWPs(lines), n>>
             [] s.detailBelow > 0 ->
                  IF n < s.detailBelow THEN <<"thin", n>> ELSE <<"good", n>>
             [] OTHER -> <<"present", n>>

\* check(draft) of signal s
check(s, lines) ==
  LET n == MatchCount(s, lines)
  IN  [found      |-> n > 0,
       confidence |-> Confidence(s, lines, n),
       evidence   |-> collectEvidence(lines, Pats(s, s.evidenced), DefaultMax),
       detail     |-> Detail(s, lines, n)]

-----------------------------------------------------------------------------
(* Lookup helpers and the load-time validation; signals is the SIGNALS     *)
(* array of the module instance                                            *)

\* signals.ts:783-785
signalsForCriterion(signals, criterion) ==
  SelectSeq(signals, LAMBDA s : s.criterion = criterion)

\* a lookup that falls back to the first signal instead of throwing
signalById_fallback(signals, id) ==
  LET found == SelectSeq(signals, LAMBDA s : s.id = id)
  IN  IF found = <<>> THEN [threw |-> FALSE, value |-> signals[1]]
      ELSE [threw |-> FALSE, value |-> found[1]]

\* signals.ts:788-792: [threw, value] or [threw, error]
signalById(signals, id) ==
  LET found == SelectSeq(signals, LAMBDA s : s.id = id)
  IN  IF found = <<>> THEN [threw |-> TRUE, error |-> <<"Signal not found", id>>]
      ELSE [threw |-> FALSE, value |-> found[1]]

\* signals.ts:795
CRITERIA == <<"excellence", "impact", "implementation">>

RECURSIVE SumWeights(_)
SumWeights(signals) ==
  IF signals = <<>> THEN 0 ELSE Head(signals).weight + SumWeights(Tail(signals))

\* signals.ts:797, in hundredths
WeightTotal(signals, c) == SumWeights(signalsForCriterion(signals, c))

\* signals.ts:796-802: what evaluating the module can end in.  A criterion is
\* warned about when Math.abs(total - 1.0) > 0.01; when the weights are
\* exactly 0.01 off, the rounding of the double sum decides, so both outcomes
\* are kept.  Nothing throws: the module is always loaded.
LoadOutcomes(signals) ==
  LET off(c)  == Abs(WeightTotal(signals, c) - 100)
      all     == {CRITERIA[i] : i \in 1..Len(CRITERIA)}
      must    == {c \in all : off(c) > 1}
      may     == {c \in all : off(c) = 1}
  IN  {[state |-> "loaded", warned |-> must \cup extra] : extra \in SUBSET may}

-----------------------------------------------------------------------------
(* Aggregation (spec.md 4.3) and the review page's badges *)

PassThreshold == 3
MaxScore == 5
PassTotal == 10

\* raw fractional score of a criterion: the sum of weight x confidence
RawScore(signals, results) ==
  RSum([i \in 1..Len(signals) |-> RMul(Rat(signals[i].weight, 100), results[i].confidence)])

\* a scaling that rounds down to the 0.5 below
ScaleScore_truncating(raw) ==
  LET rounded == Rat(RFloor(RMul(raw, Rat(2 * MaxScore, 1))), 2)
  IN  RMax(Zero, RMin(Rat(MaxScore, 1), rounded))

\* x 5, rounded to the nearest 0.5 (a tie going up), clamped to [0, 5]
ScaleScore(raw) ==
  LET rounded == Rat(MathRound(RMul(raw, Rat(2 * MaxScore, 1))), 2)
  IN  RMax(Zero, RMin(Rat(MaxScore, 1), rounded))

\* results[id] is what the check() of signal id returned
CriterionResult(signals, c, results) ==
  LET own == signalsForCriterion(signals, c)
  IN  [criterionId |-> c,
       score       |-> ScaleScore(RawScore(own, [i \in 1..Len(own) |-> results[own[i].id]])),
       threshold   |-> Rat(PassThreshold, 1),
       maxScore    |-> Rat(MaxScore, 1),
       signals     |-> [i \in 1..Len(own) |->
                          [signalId |-> own[i].id, weight |-> own[i].weight,
                           result |-> results[own[i].id]]]]

ScoreDraft(signals, results) ==
  LET criteria == [i \in 1..Len(CRITERIA) |-> CriterionResult(signals, CRITERIA[i], results)]
      overall  == RSum([i \in 1..Len(criteria) |-> criteria[i].score])
      allPass  == \A i \in 1..Len(criteria) : RLeq(criteria[i].threshold, criteria[i].score)
  IN  [overallScore     |-> overall,
       maxPossibleScore |-> Rat(MaxScore * Len(CRITERIA), 1),
       overallPassed    |-> allPass /\ RLeq(Rat(PassTotal, 1), overall),
       criteria         |-> criteria]

\* a badge that passes only above the threshold
ScoreBadge_strict(score, threshold, max) == RLt(threshold, score)

\* review/[draftId]/page.tsx:66-67: const passed = score >= threshold
ScoreBadge(score, threshold, max) == RLeq(threshold, score)

-----------------------------------------------------------------------------
(* State machines *)

NoCall == [none |-> TRUE]
NoReport == [none |-> TRUE]
EmptyPool == <<>>
NoPage == [none |-> TRUE]
EmptyStorage == [k \in {} |-> NoCall]
\* no request was received yet
ImproveIdle == [stage |-> "idle", served |-> 0]

\* useState defaults of the editor page, page.tsx:128-129
EmptyText == [pad |-> 0, words |-> <<>>, tail |-> 0]
DefaultTitle == "Untitled proposal"
DefaultScheme == "horizon_europe_ria_ia"
NoWizard == "null"

\* no editor page is open
EditorClosed ==
  [mounted |-> FALSE, draftId |-> "d1", content |-> EmptyText, title |-> DefaultTitle,
   schemeId |-> DefaultScheme, wizardId |-> NoWizard, generating |-> FALSE,
   improving |-> FALSE, saveStatus |-> "saved", draftStatus |-> "undefined",
   timer |-> <<>>, requests |-> {}, event |-> [op |-> "none"]]

\* nothing stored, no page open, no request received
AppIdle ==
  /\ storage = EmptyStorage
  /\ clock = 1
  /\ storeCall = NoCall
  /\ page = NoPage
  /\ fetches = {}
  /\ improve = ImproveIdle
  /\ editor = EditorClosed

SignalIds == {SIGNALS[i].id : i \in 1..Len(SIGNALS)}
SignalOf(id) == SIGNALS[CHOOSE i \in 1..Len(SIGNALS) : SIGNALS[i].id = id]

\* ids asked of signalById: the registered ones and some that are not
LookupIds == SignalIds \cup {"", "unknown_signal", "Objectives_Listed", "kpi"}

\* registries a build can hold: the shipped one, and the shipped one with the
\* weight of one signal edited
MaxWeightEdit == 2

Registries ==
  {[SIGNALS EXCEPT ![k].weight = @ + d] :
     k \in 1..Len(SIGNALS), d \in (0 - MaxWeightEdit)..MaxWeightEdit}

(* sat, called with growing match counts for a fixed saturation point *)

InitSat ==
  /\ \E S \in 1..MaxSaturation :
       /\ satArgs = [n |-> -2, S |-> S]
       /\ satOut = [prev |-> sat(-3, S), cur |-> sat(-2, S)]
  /\ registry = SIGNALS
  /\ moduleState = "loaded"
  /\ warnings = {}
  /\ lookup = NoCall
  /\ AppIdle
  /\ draft = <<>>
  /\ pool = EmptyPool
  /\ call = NoCall
  /\ checks = NoCall
  /\ report = NoReport

CallSat ==
  /\ satArgs.n <= 2 * satArgs.S
  /\ satArgs' = [satArgs EXCEPT !.n = @ + 1]
  /\ satOut' = [prev |-> satOut.cur, cur |-> sat(satArgs.n + 1, satArgs.S)]
  /\ UNCHANGED <<registry, moduleState, warnings, lookup, draft, pool, call, checks, report, appVars>>

NextSat == CallSat

SpecSat == InitSat /\ [][NextSat]_vars

(* the module: evaluated once, then serving lookups *)

InitRegistry ==
  /\ registry \in Registries
  /\ moduleState = "unloaded"
  /\ warnings = {}
  /\ lookup = NoCall
  /\ AppIdle
  /\ satArgs = [n |-> 0, S |-> 1]
  /\ satOut = [prev |-> Zero, cur |-> Zero]
  /\ draft = <<>>
  /\ pool = EmptyPool
  /\ call = NoCall
  /\ checks = NoCall
  /\ report = NoReport

\* signals.ts:794-802
LoadModule ==
  /\ moduleState = "unloaded"
  /\ \E o \in LoadOutcomes(registry) :
       /\ moduleState' = o.state
       /\ warnings' = o.warned
  /\ UNCHANGED <<registry, lookup, satArgs, satOut, draft, pool, call, checks, report, appVars>>

LookupById(id) ==
  /\ moduleState = "loaded"
  /\ lookup' = [op |-> "signalById", arg |-> id, out |-> signalById(registry, id)]
  /\ UNCHANGED <<registry, moduleState, warnings, satArgs, satOut, draft, pool, call, checks, report, appVars>>

LookupForCriterion(c) ==
  /\ moduleState = "loaded"
  /\ lookup' = [op |-> "signalsForCriterion", arg |-> c, out |-> signalsForCriterion(registry, c)]
  /\ UNCHANGED <<registry, moduleState, warnings, satArgs, satOut, draft, pool, call, checks, report, appVars>>

NextRegistry ==
  \/ LoadModule
  \/ \E id \in LookupIds : LookupById(id)
  \/ \E i \in 1..Len(CRITERIA) : LookupForCriterion(CRITERIA[i])

SpecRegistry == InitRegistry /\ [][NextRegistry]_vars

(* check() calls on a draft being written *)

\* a check that keeps its RegExp objects between calls and execs them where
\* they were left
CheckRun_pooled(regexps, s, lines) ==
  LET pats  == Pats(s, s.evidenced)
      key(p) == <<p.signal, p.name>>
      res   == [i \in 1..Len(pats) |->
                  [pats[i] EXCEPT !.lastIndex =
                     IF key(pats[i]) \in DOMAIN regexps THEN regexps[key(pats[i])] ELSE 0]]
      run   == ForEachPattern(lines, Text(lines), res,
                              [evidence |-> <<>>, seen |-> {}, full |-> FALSE, left |-> <<>>],
                              DefaultMax)
      kept  == [k \in {key(pats[i]) : i \in 1..Len(run.left)} |->
                  LET i == CHOOSE j \in 1..Len(run.left) : key(pats[j]) = k IN run.left[i]]
  IN  [result |-> [check(s, lines) EXCEPT !.evidence = run.evidence],
       regexps |-> kept @@ regexps]

\* one check(draft) call on a module whose surviving RegExp objects are
\* regexps: signals.ts:9 and 26-31, every pattern is a literal of the call
\* and every scan runs on a new RegExp, so none is read and none is left
CheckRun(regexps, s, lines) == [result |-> check(s, lines), regexps |-> regexps]

Init ==
  /\ draft = <<>>
  /\ pool = EmptyPool
  /\ call = NoCall
  /\ checks = NoCall
  /\ report = NoReport
  /\ satArgs = [n |-> 0, S |-> 1]
  /\ satOut = [prev |-> Zero, cur |-> Zero]
  /\ registry = SIGNALS
  /\ moduleState = "loaded"
  /\ warnings = {}
  /\ lookup = NoCall
  /\ AppIdle

TypeLine(line, limit) ==
  /\ Len(draft) < limit
  /\ draft' = Append(draft, line)
  /\ call' = NoCall
  /\ checks' = NoCall
  /\ report' = NoReport
  /\ UNCHANGED <<pool, satArgs, satOut, registry, moduleState, warnings, lookup, appVars>>

\* signal s is checked on the draft: first after an edit, or again
Check(s) ==
  /\ IF call = NoCall THEN TRUE ELSE call.signal = s.id
  /\ \E run \in {CheckRun(pool, s, draft)} :
       /\ call' = [signal |-> s.id,
                   result |-> run.result,
                   before |-> IF call = NoCall THEN NoCall ELSE call.result]
       /\ pool' = run.regexps
  /\ UNCHANGED <<draft, checks, report, satArgs, satOut, registry, moduleState, warnings, lookup, appVars>>

\* the caller drops the result it holds
Forget ==
  /\ call # NoCall
  /\ call' = NoCall
  /\ UNCHANGED <<draft, pool, checks, report, satArgs, satOut, registry, moduleState, warnings, lookup, appVars>>

Next ==
  \/ \E line \in EvidenceLines : TypeLine(line, MaxLines)
  \/ \E i \in 1..Len(SIGNALS) : Check(SIGNALS[i])
  \/ Forget

Spec == Init /\ [][Next]_vars

(* scoring a draft *)

\* every signal's check() is run on the draft
RunChecks(signals, lines) ==
  [id \in {signals[i].id : i \in 1..Len(signals)} |->
     check(signals[CHOOSE i \in 1..Len(signals) : signals[i].id = id], lines)]

Score ==
  /\ report = NoReport
  /\ checks' = RunChecks(SIGNALS, draft)
  /\ report' = ScoreDraft(SIGNALS, checks')
  /\ UNCHANGED <<draft, pool, call, satArgs, satOut, registry, moduleState, warnings, lookup, appVars>>

NextScore ==
  \/ \E line \in RubricLines : TypeLine(line, MaxRubricLines)
  \/ Score

SpecScore == Init /\ [][NextScore]_vars

-----------------------------------------------------------------------------
(* Claims *)

\* C2: sat(matchCount, S) is 0 whenever matchCount <= 0 and otherwise
\* min(1, matchCount / S); so for a fixed S > 0 it never decreases as
\* matchCount grows, sat(0, S) = 0, sat(S, S) = 1 and sat(2S, S) = 1.
C2_SatIsCappedRatio ==
  LET n == satArgs.n
      S == satArgs.S
  IN  /\ n <= 0 => satOut.cur = Zero
      /\ n > 0 /\ n < S => satOut.cur = Rat(n, S) /\ RLt(Zero, satOut.cur) /\ RLt(satOut.cur, One)
      /\ n >= S => satOut.cur = One
      /\ n = 2 * S => satOut.cur = One
      /\ RLeq(satOut.prev, satOut.cur)

\* the cap has acted: a count twice the saturation point, after one below it
C2_Witness ==
  /\ satArgs.S > 1
  /\ satArgs.n = 2 * satArgs.S
  /\ satOut.cur = One
  /\ satOut.prev = One

ValuesOf(seq) == {seq[i] : i \in 1..Len(seq)}

WeightsOf(signals, c) ==
  LET own == SelectSeq(signals, LAMBDA s : s.criterion = c)
  IN  [i \in 1..Len(own) |-> own[i].weight]

\* C4: the shipped registry holds exactly 22 signals with unique ids, each
\* owned by one of the three criteria: 7 for excellence, 7 for impact and 8
\* for implementation, with the listed weights in declaration order; every
\* weight is in (0, 1] and each criterion's weights sum to within 0.01 of 1.
C4_ShippedRegistry ==
  registry = SIGNALS =>
    /\ Len(registry) = 22
    /\ \A i, j \in 1..Len(registry) : registry[i].id = registry[j].id => i = j
    /\ \A i \in 1..Len(registry) :
         /\ registry[i].criterion \in {"excellence", "impact", "implementation"}
         /\ registry[i].weight > 0
         /\ registry[i].weight <= 100
    /\ WeightsOf(registry, "excellence") = <<22, 12, 22, 16, 12, 10, 6>>
    /\ WeightsOf(registry, "impact") = <<20, 20, 16, 16, 14, 10, 4>>
    /\ WeightsOf(registry, "implementation") = <<22, 14, 14, 10, 14, 12, 8, 6>>
    /\ \A c \in {"excellence", "impact", "implementation"} :
         Abs(SumWeights(SelectSeq(registry, LAMBDA s : s.criterion = c)) - 100) <= 1

\* the shipped registry was loaded without a warning and has served a lookup
C4_Witness ==
  /\ registry = SIGNALS
  /\ moduleState = "loaded"
  /\ warnings = {}
  /\ lookup # NoCall

Misweighted(signals) ==
  \E c \in {"excellence", "impact", "implementation"} :
    Abs(SumWeights(SelectSeq(signals, LAMBDA s : s.criterion = c)) - 100) > 1

\* C5: loading a registry in which some criterion's weights sum to a value
\* more than 0.01 away from 1.0 fails construction: the module is not loaded
\* and no lookup is served from it.
C5_MisweightedLoadFails ==
  Misweighted(registry) => moduleState # "loaded" /\ lookup = NoCall

\* the last lookup answered as signals.ts documents it
LookupAnswered ==
  /\ lookup # NoCall /\ lookup.op = "signalById" =>
       IF \E i \in 1..Len(registry) : registry[i].id = lookup.arg
       THEN /\ ~lookup.out.threw
            /\ lookup.out.value \in ValuesOf(registry)
            /\ lookup.out.value.id = lookup.arg
       ELSE /\ lookup.out.threw
            /\ lookup.out.error = <<"Signal not found", lookup.arg>>
  /\ lookup # NoCall /\ lookup.op = "signalsForCriterion" =>
       LET idx == {i \in 1..Len(registry) : registry[i].criterion = lookup.arg}
           nth(k) == CHOOSE i \in idx : Cardinality({j \in idx : j < i}) = k - 1
       IN  /\ Len(lookup.out) = Cardinality(idx)
           /\ \A k \in 1..Len(lookup.out) : lookup.out[k] = registry[nth(k)]

\* C6: signalById(id) returns the signal whose id is id for each registered
\* id and fails with a 'Signal not found' error for every other string;
\* signalsForCriterion(c) returns exactly the signals whose criterion is c,
\* in declaration order; neither lookup modifies the registry.
C6_Lookups == []LookupAnswered /\ [][registry' = registry]_vars

\* an unknown id was refused by a loaded module
C6_Witness ==
  /\ moduleState = "loaded"
  /\ lookup # NoCall
  /\ lookup.op = "signalById"
  /\ lookup.arg = "Objectives_Listed"
  /\ lookup.out.threw

\* what getLine makes of a whole vocabulary line that is not longer than maxLen
Cleaned(line) == StripLeadingMarkers(trim(LineChars[line]))

\* C3: the evidence list check() returns has at most 3 entries, every entry
\* is at most 120 characters long (a longer line is cut to 119 characters
\* plus an ellipsis), and no two entries are equal.
C3_EvidenceBounded ==
  call # NoCall =>
    LET ev == call.result.evidence
    IN  /\ Len(ev) <= 3
        /\ \A i \in 1..Len(ev) :
             /\ Len(ev[i]) <= 120
             /\ \E k \in 1..Len(draft) :
                  LET whole == Cleaned(draft[k])
                  IN  IF Len(whole) <= 120 THEN ev[i] = whole
                      ELSE ev[i] = SubSeq(whole, 1, 119) \o <<Ellipsis>>
        /\ \A i, j \in 1..Len(ev) : ev[i] = ev[j] => i = j

\* three entries out of four matching lines, one of them a cut line
C3_Witness ==
  /\ call # NoCall
  /\ {"O1", "O2", "H3", "LA"} \subseteq ValuesOf(draft)
  /\ Len(call.result.evidence) = 3
  /\ call.result.detail[1] = "good"
  /\ call.result.detail[2] > 3
  /\ \E i \in 1..3 :
       /\ Len(call.result.evidence[i]) = 120
       /\ call.result.evidence[i][120] = Ellipsis

C1_ConfidenceInUnitInterval ==
  checks # NoCall =>
    \A id \in DOMAIN checks :
      /\ RLeq(Zero, checks[id].confidence)
      /\ RLeq(checks[id].confidence, One)

\* a TRL progression on top of two TRL mentions: 2/3 + 0.4 capped at 1, next
\* to a work-package signal whose two terms stay below 1
C1_Witness ==
  /\ checks # NoCall
  /\ checks["trl_mentioned"].detail = <<"structured">>
  /\ RLt(One, RAdd(sat(MatchCount(SignalOf("trl_mentioned"), draft), 3), Rat(4, 10)))
  /\ checks["trl_mentioned"].confidence = One
  /\ RLt(Zero, checks["work_packages_defined"].confidence)
  /\ RLt(checks["work_packages_defined"].confidence, One)

\* 5 x the weighted sum of the confidences a criterion's entries carry
Weighted(criterion) ==
  RMul(Rat(5, 1),
       RSum([i \in 1..Len(criterion.signals) |->
               RMul(Rat(criterion.signals[i].weight, 100),
                    criterion.signals[i].result.confidence)]))

\* C8: each criterion's score is 5 x the weighted sum of its signals'
\* confidences (weights from the registry) rounded to the nearest 0.5, a tie
\* going up, and clamped to [0, 5]; so it is a multiple of 0.5 in [0, 5];
\* overallScore is the sum of the criterion scores and lies in
\* [0, maxPossibleScore]; maxPossibleScore is 5 x the number of criteria, 15.
C8_ScoreIsRoundedWeightedSum ==
  report # NoReport =>
    /\ Len(report.criteria) = 3
    /\ \A k \in 1..Len(report.criteria) :
         LET c     == report.criteria[k]
             own   == SelectSeq(SIGNALS, LAMBDA s : s.criterion = c.criterionId)
             exact == Weighted(c)
         IN  /\ Len(c.signals) = Len(own)
             /\ \A i \in 1..Len(own) :
                  /\ c.signals[i].signalId = own[i].id
                  /\ c.signals[i].weight = own[i].weight
             /\ RMul(c.score, Rat(2, 1))[2] = 1
             /\ RLeq(Zero, c.score)
             /\ RLeq(c.score, Rat(5, 1))
             /\ RLeq(c.score, RAdd(exact, Rat(1, 4)))
             /\ RLt(exact, RAdd(c.score, Rat(1, 4)))
    /\ report.overallScore = RSum([k \in 1..Len(report.criteria) |-> report.criteria[k].score])
    /\ RLeq(Zero, report.overallScore)
    /\ RLeq(report.overallScore, report.maxPossibleScore)
    /\ report.maxPossibleScore = Rat(15, 1)

\* a weighted sum exactly between two steps (0.25) is scored 0.5, in a report
\* that also has a criterion whose weighted sum is not a step and scores above 0
C8_Witness ==
  /\ report # NoReport
  /\ \E k \in 1..Len(report.criteria) :
       /\ Weighted(report.criteria[k]) = Rat(1, 4)
       /\ report.criteria[k].score = Rat(1, 2)
  /\ \E k \in 1..Len(report.criteria) :
       /\ RLt(Zero, report.criteria[k].score)
       /\ RMul(Weighted(report.criteria[k]), Rat(4, 1))[2] # 1

Scores == [k \in 1..Len(report.criteria) |-> report.criteria[k].score]

\* C9: overallPassed is true iff every criterion's score is at least its
\* threshold 3.0 and overallScore is at least 10.0; three scores of at least
\* 3.0 that sum to less than 10.0 do not pass; when overallPassed is true
\* every per-criterion badge (score >= threshold) shows a pass.
C9_PassedIffAllThresholds ==
  report # NoReport =>
    /\ \A k \in 1..Len(report.criteria) : report.criteria[k].threshold = Rat(3, 1)
    /\ report.overallPassed <=>
         /\ \A k \in 1..Len(Scores) : RLeq(Rat(3, 1), Scores[k])
         /\ RLeq(Rat(10, 1), report.overallScore)
    /\ (\A k \in 1..Len(Scores) : RLeq(Rat(3, 1), Scores[k])) /\ RLt(RSum(Scores), Rat(10, 1))
         => ~report.overallPassed
    /\ report.overallPassed =>
         \A k \in 1..Len(report.criteria) :
           ScoreBadge(report.criteria[k].score, report.criteria[k].threshold,
                      report.criteria[k].maxScore)

\* three criteria at 3.0 each: every badge passes, the report does not
C9_Witness ==
  /\ report # NoReport
  /\ Scores = <<Rat(3, 1), Rat(3, 1), Rat(3, 1)>>
  /\ report.overallScore = Rat(9, 1)
  /\ ~report.overallPassed
  /\ \A k \in 1..Len(report.criteria) :
       ScoreBadge(report.criteria[k].score, report.criteria[k].threshold,
                  report.criteria[k].maxScore)

\* no regular expression of any signal of the criterion matches in the draft
Unmatched(criterionId) ==
  \A i \in 1..Len(SIGNALS) :
    SIGNALS[i].criterion = criterionId =>
      \A k \in 1..Len(draft) :
        /\ \A p \in PatternNames[SIGNALS[i].id] : MatchCols(SIGNALS[i].id, p, draft[k]) = <<>>
        /\ SIGNALS[i].id = "work_packages_defined" => WpDigits(draft[k]) = <<>>

\* C10: if the document matches none of the patterns of any signal of a
\* criterion, every signal of that criterion returns found = false with
\* confidence 0, the criterion's score is 0.0 and overallPassed is false.
C10_UnmatchedCriterionScoresZero ==
  report # NoReport =>
    \A k \in 1..Len(report.criteria) :
      Unmatched(report.criteria[k].criterionId) =>
        /\ \A i \in 1..Len(SIGNALS) :
             SIGNALS[i].criterion = report.criteria[k].criterionId =>
               /\ ~checks[SIGNALS[i].id].found
               /\ checks[SIGNALS[i].id].confidence = Zero
        /\ report.criteria[k].score = Zero
        /\ ~report.overallPassed

\* a draft that scores on one criterion and matches nothing of another
C10_Witness ==
  /\ report # NoReport
  /\ \E k \in 1..Len(report.criteria) :
       /\ Unmatched(report.criteria[k].criterionId)
       /\ report.criteria[k].score = Zero
  /\ \E k \in 1..Len(report.criteria) : RLeq(Rat(3, 1), report.criteria[k].score)

-----------------------------------------------------------------------------
(* Synthetic check results: a document engineered for one criterion, whose  *)
(* signals are brought to full confidence one at a time                     *)

Absent  == [found |-> FALSE, confidence |-> Zero, evidence |-> <<>>, detail |-> <<"none">>]
Present == [found |-> TRUE, confidence |-> One, evidence |-> <<>>, detail |-> <<"good", 0>>]

InitProfile ==
  /\ \E i \in 1..Len(CRITERIA) : call = [criterion |-> CRITERIA[i]]
  /\ checks = [id \in SignalIds |-> Absent]
  /\ report = NoReport
  /\ draft = <<>>
  /\ pool = EmptyPool
  /\ satArgs = [n |-> 0, S |-> 1]
  /\ satOut = [prev |-> Zero, cur |-> Zero]
  /\ registry = SIGNALS
  /\ moduleState = "loaded"
  /\ warnings = {}
  /\ lookup = NoCall
  /\ AppIdle

\* the document is extended so that signal id saturates
Satisfy(id) ==
  /\ SignalOf(id).criterion = call.criterion
  /\ checks[id] = Absent
  /\ checks' = [checks EXCEPT ![id] = Present]
  /\ report' = NoReport
  /\ UNCHANGED <<call, draft, pool, satArgs, satOut, registry, moduleState, warnings, lookup, appVars>>

ScoreProfile ==
  /\ report = NoReport
  /\ report' = ScoreDraft(SIGNALS, checks)
  /\ UNCHANGED <<call, checks, draft, pool, satArgs, satOut, registry, moduleState, warnings, lookup, appVars>>

NextProfile ==
  \/ \E id \in SignalIds : Satisfy(id)
  \/ ScoreProfile

SpecProfile == InitProfile /\ [][NextProfile]_vars

\* exactly the requiredForThreshold signals of the criterion are at full
\* confidence, its other signals at zero
RequiredOnly(criterionId) ==
  \A i \in 1..Len(SIGNALS) :
    SIGNALS[i].criterion = criterionId =>
      checks[SIGNALS[i].id].confidence =
        IF SIGNALS[i].requiredForThreshold THEN One ELSE Zero

\* C11: for each criterion, when every requiredForThreshold signal has
\* confidence 1 and every other signal of the criterion has confidence 0,
\* the criterion's score (weighted sum x 5, rounded to the nearest 0.5) is
\* at least 3.0.
C11_RequiredSignalsReachThreshold ==
  report # NoReport =>
    \A k \in 1..Len(report.criteria) :
      RequiredOnly(report.criteria[k].criterionId) =>
        RLeq(Rat(3, 1), report.criteria[k].score)

\* the required implementation signals alone: 0.76 x 5 = 3.8, scored 4.0
C11_Witness ==
  /\ report # NoReport
  /\ RequiredOnly("implementation")
  /\ report.criteria[3].criterionId = "implementation"
  /\ report.criteria[3].score = Rat(4, 1)


-----------------------------------------------------------------------------
(* kpi_table on a document and on the same document without its table      *)

MaxKpiLines == 4

\* a line of a Markdown table starts with a pipe
TableLine(line) == LineChars[line][1] = "|"

\* the document with every table line removed
WithoutTable(lines) == SelectSeq(lines, LAMBDA line : ~TableLine(line))

\* the characters of word stand somewhere in one of the lines
Mentions(lines, word) ==
  \E k \in 1..Len(lines) :
    \E o \in 0..(Len(LineChars[lines[k]]) - Len(word)) :
      SubSeq(LineChars[lines[k]], o + 1, o + Len(word)) = word

\* kpi_table is checked on the draft and on the draft without its table
CheckKpi ==
  /\ call = NoCall
  /\ call' = [signal  |-> "kpi_table",
              result  |-> check(SignalOf("kpi_table"), draft),
              without |-> check(SignalOf("kpi_table"), WithoutTable(draft))]
  /\ UNCHANGED <<draft, pool, checks, report, satArgs, satOut, registry, moduleState, warnings, lookup, appVars>>

NextKpi ==
  \/ \E line \in KpiLines : TypeLine(line, MaxKpiLines)
  \/ CheckKpi

SpecKpi == Init /\ [][NextKpi]_vars

\* the draft has a table line with a Baseline and a Target column header, and
\* what is left without the table still holds the words KPI and %
KpiScenario ==
  /\ call # NoCall
  /\ \E k \in 1..Len(draft) :
       /\ TableLine(draft[k])
       /\ Mentions(<<draft[k]>>, <<"B", "a", "s", "e", "l", "i", "n", "e">>)
       /\ Mentions(<<draft[k]>>, <<"T", "a", "r", "g", "e", "t">>)
  /\ Mentions(WithoutTable(draft), <<"K", "P", "I">>)
  /\ Mentions(WithoutTable(draft), <<"%">>)

\* the confidence is sat(n, 6) plus the full bonus of 0.3, capped at 1
FullBonus ==
  call.result.confidence =
    RMin(One, RAdd(RMin(One, Rat(MatchCount(SignalOf("kpi_table"), draft), 6)), Rat(3, 10)))

\* C12 as stated: with a Baseline/Target table the kpi_table confidence holds
\* the full bonus and is strictly greater than without the table
C12_TableStrictlyRaisesConfidence ==
  KpiScenario =>
    /\ FullBonus
    /\ RLt(call.without.confidence, call.result.confidence)

\* C12, amended: with a Baseline/Target table the kpi_table confidence is
\* min(1, sat(n, 6) + 0.3); it is never below the confidence without the
\* table, and strictly greater whenever the confidence without the table is
\* below 1
C12_TableRaisesConfidenceBelowCap ==
  KpiScenario =>
    /\ FullBonus
    /\ RLeq(call.without.confidence, call.result.confidence)
    /\ RLt(call.without.confidence, One) =>
         RLt(call.without.confidence, call.result.confidence)

\* a draft whose prose alone saturates kpi_table: the table adds nothing
C12_Witness ==
  /\ KpiScenario
  /\ call.without.confidence = One
  /\ call.result.confidence = One
  /\ call.result.detail[1] = "structured"
  /\ call.without.detail[1] = "unstructured"

-----------------------------------------------------------------------------
(* objectives_listed *)

\* one of the lines holds an objective reference O<n>: at the start of a word
HasObjectiveRef(lines) ==
  \E k \in 1..Len(lines) :
    LET cs == LineChars[lines[k]]
    IN  \E o \in 1..(Len(cs) - 2) :
          /\ cs[o] = "O"
          /\ cs[o + 1] \in {"1", "2", "3", "4", "5", "6", "7", "8", "9"}
          /\ cs[o + 2] = ":"
          /\ o > 1 => cs[o - 1] \in WhiteSpace

\* the matches of the four pattern families of objectives_listed, every
\* match of every family counted
ObjectiveMatches(lines) ==
  Cardinality(UNION {{<<k, p, i>> : i \in 1..Len(MatchCols("objectives_listed", p, lines[k]))} :
                       k \in 1..Len(lines), p \in {"p1", "p2", "p3", "p4"}})

\* C13: on every document with an objective reference O<n>:,
\* objectives_listed returns found = true and a confidence above 0 that
\* equals min(1, n/5), n being the matches of its four pattern families
\* added up, overlapping matches of different families counted each.
C13_ObjectivesCounted ==
  (/\ call # NoCall
   /\ call.signal = "objectives_listed"
   /\ HasObjectiveRef(draft)) =>
    /\ call.result.found
    /\ RLt(Zero, call.result.confidence)
    /\ call.result.confidence = RMin(One, Rat(ObjectiveMatches(draft), 5))

\* one heading that two families match, O3: and Objective O3: n is 2
C13_Witness ==
  /\ call # NoCall
  /\ call.signal = "objectives_listed"
  /\ draft = <<"H3">>
  /\ HasObjectiveRef(draft)
  /\ ObjectiveMatches(draft) = 2
  /\ call.result.found
  /\ call.result.confidence = Rat(2, 5)

-----------------------------------------------------------------------------
(* collectEvidence *)

\* what getLine returns for a match on this line
Snippet(line) ==
  IF Len(Cleaned(line)) <= DefaultMaxLen THEN Cleaned(line)
  ELSE SubSeq(Cleaned(line), 1, DefaultMaxLen - 1) \o <<Ellipsis>>

\* one snippet per match of one pattern family, in document order
RECURSIVE FamilySnippets(_, _, _)
FamilySnippets(signal, name, lines) ==
  IF lines = <<>> THEN <<>>
  ELSE [i \in 1..Len(MatchCols(signal, name, Head(lines))) |-> Snippet(Head(lines))]
         \o FamilySnippets(signal, name, Tail(lines))

\* the families one after the other, in their declared order
RECURSIVE AllSnippets(_, _, _)
AllSnippets(signal, names, lines) ==
  IF names = <<>> THEN <<>>
  ELSE FamilySnippets(signal, Head(names), lines) \o AllSnippets(signal, Tail(names), lines)

\* the first max entries that are not empty and not kept already
RECURSIVE FirstDistinct(_, _, _)
FirstDistinct(snippets, kept, max) ==
  IF snippets = <<>> \/ Len(kept) >= max THEN kept
  ELSE IF Head(snippets) = <<>> \/ Head(snippets) \in ValuesOf(kept)
       THEN FirstDistinct(Tail(snippets), kept, max)
       ELSE FirstDistinct(Tail(snippets), Append(kept, Head(snippets)), max)

ExpectedEvidence(lines) ==
  FirstDistinct(AllSnippets("kpi_table", SignalOf("kpi_table").evidenced, lines), <<>>, 3)

\* C17: the evidence of a check is the first (at most 3) distinct non-empty
\* cleaned lines met when its pattern families are scanned in their declared
\* order and each family's matches in document order; nothing is added once
\* 3 are collected.
C17_EvidenceInFamilyOrder ==
  call # NoCall =>
    /\ call.result.evidence = ExpectedEvidence(draft)
    /\ call.without.evidence = ExpectedEvidence(WithoutTable(draft))

\* a draft whose first line is matched by the last family only: it comes
\* third, after the two table lines, and the fourth candidate is left out
C17_Witness ==
  /\ call # NoCall
  /\ draft = <<"KQ", "KP", "KM", "KT">>
  /\ call.result.evidence = <<Cleaned("KM"), Cleaned("KT"), Cleaned("KQ")>>
  /\ call.without.evidence = <<Cleaned("KQ"), Cleaned("KP")>>

-----------------------------------------------------------------------------
(* trl_mentioned on drafts that state a TRL progression *)

MaxTrlLines == 3

NextTrl ==
  \/ \E line \in TrlLines : TypeLine(line, MaxTrlLines)
  \/ Check(SignalOf("trl_mentioned"))
  \/ Forget

SpecTrl == Init /\ [][NextTrl]_vars

\* the progression pattern p3 matches somewhere in the draft
HasProgression ==
  \E k \in 1..Len(draft) : MatchCols("trl_mentioned", "p3", draft[k]) # <<>>

\* C18: whenever the progression pattern matches at least once,
\* trl_mentioned returns found = true and a confidence of exactly 1.0.
C18_ProgressionSaturates ==
  (call # NoCall /\ HasProgression) =>
    /\ call.result.found
    /\ call.result.confidence = One

-----------------------------------------------------------------------------
(* lib/drafts/store.ts on the browser's localStorage.                      *)
(*                                                                         *)
(* A string is [pad, words, tail]: pad white-space characters, words of    *)
(* the given lengths separated by single spaces, tail white-space          *)
(* characters.  A storage key is the pair of the pieces it is concatenated *)
(* from.  A stored value is what JSON.parse returns for the stored string: *)
(* [isArray, items, props], the elements of an array and the properties of *)
(* an object; a property that is undefined is dropped by JSON.stringify    *)
(* and reads as undefined after JSON.parse, so it is kept as Undefined.    *)

MaxClock == 3

Undefined == "undefined"
Null == [null |-> TRUE]
NoProps == [none |-> TRUE]

Obj(props) == [isArray |-> FALSE, items |-> <<>>, props |-> props]
Arr(items) == [isArray |-> TRUE, items |-> items, props |-> NoProps]

\* the draftId route parameters and arguments the calls are made with
DraftIds == {"d1", "d2", "index"}

Contents ==
  {[pad |-> 2, words |-> <<24, 24>>, tail |-> 1],
   [pad |-> 0, words |-> <<25, 24>>, tail |-> 1],
   [pad |-> 0, words |-> <<>>, tail |-> 3]}

RECURSIVE SumOf(_)
SumOf(lengths) == IF lengths = <<>> THEN 0 ELSE Head(lengths) + SumOf(Tail(lengths))

\* text.trim().length
TrimmedLength(text) ==
  IF text.words = <<>> THEN 0 ELSE SumOf(text.words) + Len(text.words) - 1

\* text.length
Length(text) ==
  IF text.words = <<>> THEN text.pad + text.tail
  ELSE text.pad + TrimmedLength(text) + text.tail

\* store.ts:56 and editor page.tsx:19, text.trim().split(/\s+/).filter(Boolean).length
wordCount(text) == Len(text.words)

\* store.ts:27
INDEX_KEY == <<"rgc_draft_", "index">>

\* store.ts:29-31
draftKey(draftId) == <<"rgc_draft_", draftId>>

getItem(store, key) == IF key \in DOMAIN store THEN store[key] ELSE Null
setItem(store, key, value) == [k \in DOMAIN store \cup {key} |-> IF k = key THEN value ELSE store[k]]
removeItem(store, key) == [k \in DOMAIN store \ {key} |-> store[k]]

\* store.ts:33-42
loadDraft(store, draftId) == getItem(store, draftKey(draftId))

\* store.ts:70-79
loadDraftIndex(store) ==
  IF getItem(store, INDEX_KEY) = Null THEN Arr(<<>>) ELSE getItem(store, INDEX_KEY)

\* the Draft objects the editor and the home page pass to saveDraft
DraftOf(draftId, content, status) ==
  [draftId |-> draftId, title |-> "Proposal", schemeId |-> "horizon-europe",
   content |-> content, wordCount |-> wordCount(content), createdAt |-> 0,
   updatedAt |-> 0, wizardId |-> IF draftId = "d1" THEN "w1" ELSE Undefined,
   status |-> status]

\* store.ts:52-61
MetaOf(d, updatedAt) ==
  [draftId |-> d.draftId, title |-> d.title, schemeId |-> d.schemeId,
   wordCount |-> wordCount(d.content), createdAt |-> d.createdAt,
   updatedAt |-> updatedAt, wizardId |-> d.wizardId, status |-> d.status]

\* index.findIndex / index.find: the position of the first entry of draftId, 0 if none
FindIndex(items, draftId) ==
  IF \E k \in 1..Len(items) : items[k].draftId = draftId
  THEN CHOOSE k \in 1..Len(items) :
         /\ items[k].draftId = draftId
         /\ \A j \in 1..(k - 1) : items[j].draftId # draftId
  ELSE 0

\* store.ts:44-68: the storage saveDraft(d) leaves at time now.  On a stored
\* index that is no array, index.findIndex throws and the catch ends the call.
saveDraft(store, d, now) ==
  LET updated  == [d EXCEPT !.updatedAt = now]
      written  == setItem(store, draftKey(d.draftId), Obj(updated))
      index    == loadDraftIndex(written)
      existing == FindIndex(index.items, d.draftId)
      meta     == MetaOf(d, now)
  IN  IF ~index.isArray THEN written
      ELSE setItem(written, INDEX_KEY,
                   Arr(IF existing > 0 THEN [index.items EXCEPT ![existing] = meta]
                       ELSE <<meta>> \o index.items))

\* { ...value, status, updatedAt }
SpreadWithStatus(value, status, now) ==
  IF value.isArray
  THEN [isArray |-> FALSE, items |-> value.items,
        props |-> [status |-> status, updatedAt |-> now]]
  ELSE [value EXCEPT !.props = [@ EXCEPT !.status = status, !.updatedAt = now]]

\* store.ts:85-107
setDraftStatus(store, draftId, status, now) ==
  LET raw     == getItem(store, draftKey(draftId))
      written == IF raw = Null THEN store
                 ELSE setItem(store, draftKey(draftId), SpreadWithStatus(raw, status, now))
      index   == loadDraftIndex(written)
      entry   == FindIndex(index.items, draftId)
  IN  IF ~index.isArray THEN written
      ELSE IF entry = 0 THEN written
      ELSE setItem(written, INDEX_KEY, Arr([index.items EXCEPT ![entry].status = status]))

\* store.ts:109-118
deleteDraft(store, draftId) ==
  LET removed == removeItem(store, draftKey(draftId))
      index   == loadDraftIndex(removed)
  IN  IF ~index.isArray THEN removed
      ELSE setItem(removed, INDEX_KEY,
                   Arr(SelectSeq(index.items, LAMBDA m : m.draftId # draftId)))

SaveDraft(d) ==
  /\ clock <= MaxClock
  /\ storage' = saveDraft(storage, d, clock)
  /\ storeCall' = [op |-> "saveDraft", draft |-> d, at |-> clock]
  /\ clock' = clock + 1
  /\ UNCHANGED <<page, fetches, improve, editor, reviewerVars>>

SetDraftStatus(draftId, status) ==
  /\ clock <= MaxClock
  /\ storage' = setDraftStatus(storage, draftId, status, clock)
  /\ storeCall' = [op |-> "setDraftStatus", draftId |-> draftId, status |-> status, at |-> clock]
  /\ clock' = clock + 1
  /\ UNCHANGED <<page, fetches, improve, editor, reviewerVars>>

DeleteDraft(draftId) ==
  /\ storage' = deleteDraft(storage, draftId)
  /\ storeCall' = [op |-> "deleteDraft", draftId |-> draftId, at |-> clock]
  /\ UNCHANGED <<clock, page, fetches, improve, editor, reviewerVars>>

NextStore ==
  \/ \E id \in DraftIds, content \in Contents, status \in {Undefined, "in-progress"} :
       SaveDraft(DraftOf(id, content, status))
  \/ \E id \in DraftIds, status \in {"in-progress", "completed"} : SetDraftStatus(id, status)
  \/ \E id \in DraftIds : DeleteDraft(id)

SpecStore == Init /\ [][NextStore]_vars

\* the value stored under the key of draftId is a Draft record of draftId
IsRecord(store, draftId) ==
  LET v == loadDraft(store, draftId)
  IN  /\ v # Null
      /\ ~v.isArray
      /\ "draftId" \in DOMAIN v.props
      /\ v.props.draftId = draftId

\* the positions of the entries of draftId in a list of index entries
EntriesOf(items, draftId) ==
  {k \in 1..Len(items) : "draftId" \in DOMAIN items[k] /\ items[k].draftId = draftId}

\* an array is stored under rgc_draft_index, with one entry for each stored
\* record and none for any other draft
IndexMatchesRecords(store) ==
  /\ loadDraftIndex(store).isArray
  /\ \A id \in DraftIds :
       Cardinality(EntriesOf(loadDraftIndex(store).items, id)) =
         IF IsRecord(store, id) THEN 1 ELSE 0

\* a step that is a call of op
Called(op) == storeCall' # storeCall /\ storeCall'.op = op

\* saveDraft of a new draftId puts its entry first, saveDraft of an indexed
\* draftId replaces its entry where it stands
SavePlacesEntry ==
  Called("saveDraft") =>
    LET id     == storeCall'.draft.draftId
        before == loadDraftIndex(storage).items
        after  == loadDraftIndex(storage').items
    IN  IF EntriesOf(before, id) = {}
        THEN /\ Len(after) = Len(before) + 1
             /\ EntriesOf(after, id) = {1}
             /\ Tail(after) = before
        ELSE /\ Len(after) = Len(before)
             /\ EntriesOf(after, id) = EntriesOf(before, id)
             /\ \A k \in 1..Len(before) : k \notin EntriesOf(before, id) => after[k] = before[k]

\* loadDraft returns the content last saved: a save stores its content, and
\* no call changes the content of a record it does not save or delete
LoadReturnsLastSaved ==
  /\ Called("saveDraft") =>
       /\ IsRecord(storage', storeCall'.draft.draftId)
       /\ loadDraft(storage', storeCall'.draft.draftId).props.content = storeCall'.draft.content
  /\ storeCall' # storeCall =>
       \A id \in DraftIds :
         (/\ IsRecord(storage, id)
          /\ ~(storeCall'.op = "saveDraft" /\ storeCall'.draft.draftId = id)
          /\ ~(storeCall'.op = "deleteDraft" /\ storeCall'.draftId = id)) =>
           /\ IsRecord(storage', id)
           /\ loadDraft(storage', id).props.content = loadDraft(storage, id).props.content

\* C19: after any sequence of saveDraft, setDraftStatus and deleteDraft
\* calls the index under rgc_draft_index has exactly one entry for every
\* stored draft record and none for a deleted or never-saved draft; a save
\* of a new draftId puts its entry at the front, a save of an existing one
\* replaces its entry in place, and loadDraft(id) returns the content last
\* saved for id.
C19_IndexFollowsRecords ==
  [][IndexMatchesRecords(storage') /\ SavePlacesEntry /\ LoadReturnsLastSaved]_vars

\* C20: setDraftStatus(id, s) changes only the status (and updatedAt) of the
\* record of id and only the status of the index entry of id; afterwards
\* both carry s; the records and entries of other drafts are unchanged; and
\* when id has neither a record nor an index entry, storage is unchanged.
C20_SetStatusChangesOnlyStatus ==
  [][Called("setDraftStatus") =>
       LET id     == storeCall'.draftId
           s      == storeCall'.status
           before == loadDraftIndex(storage)
           after  == loadDraftIndex(storage')
           at     == EntriesOf(before.items, id)
       IN  /\ IsRecord(storage, id) =>
                /\ IsRecord(storage', id)
                /\ loadDraft(storage', id).props =
                     [loadDraft(storage, id).props EXCEPT
                        !.status = s, !.updatedAt = loadDraft(storage', id).props.updatedAt]
           /\ after.isArray = before.isArray
           /\ Len(after.items) = Len(before.items)
           /\ \A k \in 1..Len(before.items) :
                after.items[k] = IF k \in at THEN [before.items[k] EXCEPT !.status = s]
                                 ELSE before.items[k]
           /\ \A other \in DraftIds \ {id} :
                IF IsRecord(storage, other)
                THEN loadDraft(storage', other) = loadDraft(storage, other)
                ELSE ~IsRecord(storage', other)
           /\ (~IsRecord(storage, id) /\ at = {}) => storage' = storage]_vars

-----------------------------------------------------------------------------
(* The review page, app/review/[draftId]/page.tsx.  The other two copies   *)
(* of the page (unnamed/part_005, unnamed/part_006) run the same effect.   *)

MinReviewChars == 50

\* what fetch('/api/review') can come to: an OK response with a report, an
\* OK response without one, an OK response whose body is no JSON, a non-OK
\* response with an error text, one without, one whose body is no JSON, and
\* a request that fails
ReviewOutcomes ==
  {[kind |-> "ok", report |-> "report"],
   [kind |-> "ok", report |-> Undefined],
   [kind |-> "ok-unparsable"],
   [kind |-> "http", status |-> 422, error |-> "Draft too short"],
   [kind |-> "http", status |-> 500, error |-> Undefined],
   [kind |-> "http-unparsable", status |-> 500],
   [kind |-> "network"]}

\* useState<ReviewerReport | null>(null)
NullReport == "null"

\* page.tsx:139-142, the state of the first render
FirstRender(draftId) ==
  [draftId |-> draftId, status |-> "loading", report |-> NullReport, errorMsg |-> "",
   draftTitle |-> "", effect |-> "pending", response |-> Null, downloaded |-> FALSE]

\* a parsed value has the property name
HasProp(value, name) == ~value.isArray /\ name \in DOMAIN value.props

\* reading property name of a parsed value
Prop(value, name) == IF HasProp(value, name) THEN value.props[name] ELSE Undefined

\* page.tsx:145-161, run() up to the fetch.  Reading .trim of a content that
\* is undefined throws outside the try block: run() ends there.
beforeFetch(p, store) ==
  LET d == loadDraft(store, p.draftId)
  IN  IF d = Null
      THEN [p EXCEPT !.errorMsg = "Draft not found", !.status = "error", !.effect = "returned"]
      ELSE IF ~HasProp(d, "content")
      THEN [p EXCEPT !.draftTitle = Prop(d, "title"), !.effect = "threw"]
      ELSE IF TrimmedLength(Prop(d, "content")) < MinReviewChars
      THEN [p EXCEPT !.draftTitle = Prop(d, "title"), !.errorMsg = "Draft is too short",
                     !.status = "error", !.effect = "returned"]
      ELSE [p EXCEPT !.draftTitle = Prop(d, "title"), !.status = "scoring",
                     !.effect = "awaiting"]

\* page.tsx:164-172
ReviewRequest(d) ==
  [url |-> "/api/review", method |-> "POST", draftContent |-> Prop(d, "content"),
   schemeId |-> Prop(d, "schemeId"), draftId |-> Prop(d, "draftId")]

\* the text of the Error the catch block receives
ErrorText(outcome) ==
  CASE outcome.kind = "http" ->
         IF outcome.error = Undefined THEN <<"HTTP", outcome.status>> ELSE outcome.error
    [] outcome.kind = "http-unparsable" -> <<"HTTP", outcome.status>>
    [] outcome.kind = "ok-unparsable" -> "Unexpected token"
    [] OTHER -> "Failed to fetch"

\* a handler that stores whatever report the body carries before it looks at res.ok
afterFetch_eager(p, outcome) ==
  IF outcome.kind = "ok"
  THEN [p EXCEPT !.report = outcome.report, !.status = "done", !.effect = "returned",
                 !.response = outcome]
  ELSE [p EXCEPT !.report = "report", !.errorMsg = ErrorText(outcome), !.status = "error",
                 !.effect = "returned", !.response = outcome]

\* page.tsx:174-186, run() after the fetch
afterFetch(p, outcome) ==
  IF outcome.kind = "ok"
  THEN [p EXCEPT !.report = outcome.report, !.status = "done", !.effect = "returned",
                 !.response = outcome]
  ELSE [p EXCEPT !.errorMsg = ErrorText(outcome), !.status = "error",
                 !.effect = "returned", !.response = outcome]

\* page.tsx:220 and 254, status === 'done' && report
ReportShown(p) == p.status = "done" /\ p.report \notin {NullReport, Undefined}

\* the page is opened on /review/<draftId>
OpenReview(draftId) ==
  /\ page = NoPage
  /\ page' = FirstRender(draftId)
  /\ UNCHANGED <<storage, clock, storeCall, fetches, improve, editor, reviewerVars>>

\* page.tsx:144-189, the effect runs up to its fetch
RunEffect ==
  /\ page # NoPage
  /\ page.effect = "pending"
  /\ page' = beforeFetch(page, storage)
  /\ fetches' = IF page'.effect = "awaiting"
                THEN fetches \cup {ReviewRequest(loadDraft(storage, page.draftId))}
                ELSE fetches
  /\ UNCHANGED <<storage, clock, storeCall, improve, editor, reviewerVars>>

\* the fetch settles and run() resumes
Respond(outcome) ==
  /\ page # NoPage
  /\ page.effect = "awaiting"
  /\ page' = afterFetch(page, outcome)
  /\ UNCHANGED <<storage, clock, storeCall, fetches, improve, editor, reviewerVars>>

\* page.tsx:191-200, the Download button is clicked
Download ==
  /\ page # NoPage
  /\ ReportShown(page)
  /\ page' = [page EXCEPT !.downloaded = TRUE]
  /\ UNCHANGED <<storage, clock, storeCall, fetches, improve, editor, reviewerVars>>

\* the user leaves the page; what a pending fetch brings is dropped
ClosePage ==
  /\ page # NoPage
  /\ page' = NoPage
  /\ UNCHANGED <<storage, clock, storeCall, fetches, improve, editor, reviewerVars>>

NextReview ==
  \/ /\ page = NoPage
     /\ \E id \in DraftIds, content \in Contents : SaveDraft(DraftOf(id, content, Undefined))
  \/ /\ page = NoPage
     /\ \E id \in DraftIds : DeleteDraft(id)
  \/ \E id \in DraftIds : OpenReview(id)
  \/ RunEffect
  \/ \E outcome \in ReviewOutcomes : Respond(outcome)
  \/ Download
  \/ ClosePage

SpecReview == Init /\ [][NextReview]_vars

\* a step in which the effect of the open page runs up to its fetch or its end
EffectRuns == page # NoPage /\ page.effect = "pending" /\ page' # page /\ page' # NoPage

\* the draft of the open page is stored with at least 50 characters after trimming
LongEnough ==
  /\ IsRecord(storage, page.draftId)
  /\ TrimmedLength(loadDraft(storage, page.draftId).props.content) >= MinReviewChars

\* C14: the review page sends POST /api/review only for a stored draft whose
\* trimmed content is at least 50 characters long; for a missing or a
\* shorter draft it enters the error state with a message and sends no
\* request.
C14_RequestOnlyForLongDraft ==
  [][/\ \A r \in fetches' : r.url = "/api/review" /\ TrimmedLength(r.draftContent) >= MinReviewChars
     /\ fetches' # fetches =>
          /\ EffectRuns
          /\ LongEnough
          /\ fetches' = fetches \cup {ReviewRequest(loadDraft(storage, page.draftId))}
     /\ (EffectRuns /\ ~LongEnough) =>
          /\ page'.status = "error"
          /\ page'.errorMsg # ""
          /\ fetches' = fetches]_vars

\* the moves of the status the page can make
StatusMoves ==
  {<<"loading", "scoring">>, <<"scoring", "done">>, <<"loading", "error">>,
   <<"scoring", "error">>}

\* C15: the status of the review page moves only loading -> scoring -> done,
\* loading -> error or scoring -> error; a report is held and shown (and
\* Download offered) only in state done after an OK response; a non-OK or
\* failed response ends in state error with a message and no report.
C15_NoPartialReport ==
  [][/\ (page = NoPage /\ page' # NoPage) =>
          page'.status = "loading" /\ page'.report = NullReport
     /\ (page # NoPage /\ page' # NoPage) =>
          /\ page'.draftId = page.draftId
          /\ page'.status # page.status => <<page.status, page'.status>> \in StatusMoves
          /\ page'.report # NullReport =>
               /\ page'.status = "done"
               /\ page'.response # Null
               /\ page'.response.kind = "ok"
               /\ page'.report = page'.response.report
          /\ ReportShown(page') => page'.status = "done"
          /\ page'.status = "error" =>
               /\ page'.report = NullReport
               /\ ~ReportShown(page')
               /\ page'.errorMsg # ""
          /\ page'.downloaded => ReportShown(page')
          /\ (page.effect = "awaiting" /\ page'.effect # "awaiting") =>
               IF page'.response.kind = "ok" THEN page'.status = "done"
               ELSE page'.status = "error"]_vars

\* a scoring call that failed: the page went from scoring to error on a
\* response that was not OK, and holds no report
C15_Witness ==
  /\ page # NoPage
  /\ page.status = "error"
  /\ page.response # Null
  /\ page.response.kind = "http"
  /\ page.report = NullReport
  /\ page.errorMsg = "Draft too short"
  /\ fetches # {}

-----------------------------------------------------------------------------
(* POST /api/improve, app/api/improve/route.ts.  A JSON value is tagged    *)
(* with its type; a text is [pad, words, tail] as in the draft store.      *)

MinImproveChars == 100
MaxServed == 2

ImproveTexts ==
  {[pad |-> 3, words |-> <<49, 49>>, tail |-> 0],
   [pad |-> 0, words |-> <<50, 49>>, tail |-> 1],
   [pad |-> 0, words |-> <<>>, tail |-> 0]}

DraftContents ==
  {[type |-> "undefined"], [type |-> "number"]}
    \cup {[type |-> "string", text |-> t] : t \in ImproveTexts}

Configs ==
  {[type |-> "undefined"], [type |-> "null"], [type |-> "string"]}
    \cup {[type |-> "object", endpoint |-> e, apiKey |-> k, model |-> m] :
            e \in {"", "https://llm.example/v1"}, k \in {"", "sk-1"}, m \in {"", "small-model"}}

\* the request bodies: no JSON, JSON that is no object, an array, objects
Bodies ==
  {[json |-> j] : j \in {"unparsable", "null", "number", "string", "array"}}
    \cup {[json |-> "object", draftContent |-> d, config |-> c] :
            d \in DraftContents, c \in Configs}

\* what the upstream fetch can come to: a rejected fetch, a non-OK response,
\* an OK response whose body is no JSON, and OK responses with no choices,
\* an empty completion and a completion
UpstreamOutcomes ==
  {[kind |-> "rejected"], [kind |-> "http", status |-> 401], [kind |-> "unparsable"],
   [kind |-> "completion", content |-> [type |-> "undefined"]],
   [kind |-> "completion", content |-> [type |-> "string", text |-> ""]],
   [kind |-> "completion", content |-> [type |-> "string", text |-> "Improved draft"]]}

Proceed == [proceed |-> TRUE]

Truthy(config, name) == config.type = "object" /\ config[name] # ""

\* a validation that looks at the config before the length of the draft
validate_configFirst(body) ==
  IF body.json = "unparsable" THEN [status |-> 400, error |-> "Invalid JSON", code |-> ""]
  ELSE IF body.json \in {"null", "number", "string"}
  THEN [status |-> 400, error |-> "Body must be a JSON object", code |-> ""]
  ELSE IF body.json = "array" \/ body.draftContent.type # "string"
  THEN [status |-> 400, error |-> "draftContent must be a string", code |-> ""]
  ELSE IF ~Truthy(body.config, "endpoint") \/ ~Truthy(body.config, "apiKey")
  THEN [status |-> 400, error |-> "No API key configured", code |-> "NO_CONFIG"]
  ELSE IF TrimmedLength(body.draftContent.text) < MinImproveChars
  THEN [status |-> 422, error |-> "Draft is too short", code |-> ""]
  ELSE Proceed

\* route.ts:63-97: the response the handler returns before any upstream
\* call, or Proceed
validate(body) ==
  IF body.json = "unparsable" THEN [status |-> 400, error |-> "Invalid JSON", code |-> ""]
  ELSE IF body.json \in {"null", "number", "string"}
  THEN [status |-> 400, error |-> "Body must be a JSON object", code |-> ""]
  ELSE IF body.json = "array" \/ body.draftContent.type # "string"
  THEN [status |-> 400, error |-> "draftContent must be a string", code |-> ""]
  ELSE IF TrimmedLength(body.draftContent.text) < MinImproveChars
  THEN [status |-> 422, error |-> "Draft is too short", code |-> ""]
  ELSE IF ~Truthy(body.config, "endpoint") \/ ~Truthy(body.config, "apiKey")
  THEN [status |-> 400, error |-> "No API key configured", code |-> "NO_CONFIG"]
  ELSE Proceed

\* route.ts:100-118
UpstreamCall(body) ==
  [url |-> <<body.config.endpoint, "/chat/completions">>,
   authorization |-> <<"Bearer ", body.config.apiKey>>,
   model |-> IF body.config.model = "" THEN "gpt-4o" ELSE body.config.model,
   draft |-> body.draftContent.text]

\* route.ts:120-146
respond(sent, outcome) ==
  CASE outcome.kind = "rejected" \/ outcome.kind = "unparsable" ->
         [status |-> 500, error |-> "Internal error calling LLM", code |-> ""]
    [] outcome.kind = "http" ->
         [status |-> 502, error |-> <<"LLM API returned", outcome.status>>, code |-> ""]
    [] OTHER ->
         IF outcome.content.type # "string" \/ outcome.content.text = ""
         THEN [status |-> 502, error |-> "LLM returned an empty response", code |-> ""]
         ELSE [status |-> 200, improvedContent |-> outcome.content.text, model |-> sent.model]

\* a request arrives and the handler runs up to its response or its fetch
ImprovePost(body) ==
  /\ improve.stage # "upstream"
  /\ improve.served < MaxServed
  /\ improve' =
       IF validate(body) = Proceed
       THEN [stage |-> "upstream", request |-> body, upstream |-> UpstreamCall(body),
             served |-> improve.served]
       ELSE [stage |-> "responded", request |-> body, response |-> validate(body),
             served |-> improve.served + 1]
  /\ UNCHANGED <<storage, clock, storeCall, page, fetches, editor, reviewerVars>>

\* the upstream fetch settles and the handler returns its response
UpstreamSettles(outcome) ==
  /\ improve.stage = "upstream"
  /\ improve' = [stage |-> "responded", request |-> improve.request,
                 upstream |-> improve.upstream, outcome |-> outcome,
                 response |-> respond(improve.upstream, outcome),
                 served |-> improve.served + 1]
  /\ UNCHANGED <<storage, clock, storeCall, page, fetches, editor, reviewerVars>>

NextImprove ==
  \/ \E body \in Bodies : ImprovePost(body)
  \/ \E outcome \in UpstreamOutcomes : UpstreamSettles(outcome)

SpecImprove == Init /\ [][NextImprove]_vars

\* the body is a JSON object whose draftContent is a string
WellFormed(body) == body.json = "object" /\ body.draftContent.type = "string"

LongDraft(body) == TrimmedLength(body.draftContent.text) >= MinImproveChars

Configured(body) ==
  /\ body.config.type = "object"
  /\ body.config.endpoint # ""
  /\ body.config.apiKey # ""

\* C16: the route calls the upstream LLM only for a JSON object body whose
\* draftContent is a string of at least 100 characters after trimming and
\* whose config has a non-empty endpoint and apiKey; otherwise it answers,
\* in this order of precedence, 400 (invalid body or draftContent not a
\* string), 422 (too short), 400 with code NO_CONFIG.  After the call a
\* non-OK upstream response or an empty completion gives 502, a thrown error
\* 500, and 200 is returned only with a non-empty improvedContent.
C16_ImproveResponses ==
  LET body == improve.request
      made == "upstream" \in DOMAIN improve
      r    == improve.response
  IN  /\ improve.stage # "idle" =>
           made = (WellFormed(body) /\ LongDraft(body) /\ Configured(body))
      /\ (improve.stage = "responded" /\ ~made) =>
           IF ~WellFormed(body) THEN r.status = 400 /\ r.code = ""
           ELSE IF ~LongDraft(body) THEN r.status = 422
           ELSE r.status = 400 /\ r.code = "NO_CONFIG"
      /\ (improve.stage = "responded" /\ made) =>
           LET o == improve.outcome
           IN  /\ r.status \in {200, 500, 502}
               /\ (o.kind = "http") => r.status = 502
               /\ (o.kind = "completion" /\ (o.content.type # "string" \/ o.content.text = "")) =>
                    r.status = 502
               /\ o.kind \in {"rejected", "unparsable"} => r.status = 500
               /\ r.status = 200 =>
                    /\ o.kind = "completion"
                    /\ o.content.type = "string"
                    /\ r.improvedContent = o.content.text
                    /\ r.improvedContent # ""

\* a second request, of 100 characters after trimming, that was answered 200
C16_Witness ==
  /\ improve.stage = "responded"
  /\ improve.served = 2
  /\ "upstream" \in DOMAIN improve
  /\ TrimmedLength(improve.request.draftContent.text) = MinImproveChars
  /\ improve.upstream.model = "gpt-4o"
  /\ improve.response.status = 200
  /\ improve.response.improvedContent = "Improved draft"

-----------------------------------------------------------------------------
(* found, confidence and evidence of one result *)

\* the matches of the patterns names of a signal on a draft, read off the table
TableCount(signal, names, lines) ==
  Cardinality(UNION {{<<k, i, j>> : j \in 1..Len(MatchCols(signal, names[i], lines[k]))} :
                       k \in 1..Len(lines), i \in 1..Len(names)})

\* C22: for every signal and every document, found = true if and only if
\* confidence > 0, if and only if the signal's match count is positive;
\* whenever found is false, the evidence list is empty and the detail is the
\* signal's 'not found' message.
C22_FoundIffPositiveConfidence ==
  checks # NoCall =>
    \A i \in 1..Len(SIGNALS) :
      LET r == checks[SIGNALS[i].id]
      IN  /\ r.found = RLt(Zero, r.confidence)
          /\ r.found = (TableCount(SIGNALS[i].id, SIGNALS[i].counted, draft) > 0)
          /\ ~r.found => r.evidence = <<>> /\ r.detail = <<"none">>

\* one draft on which a signal with a bonus is found and others, with a
\* bonus of their own, are not
C22_Witness ==
  /\ checks # NoCall
  /\ draft = <<"PLX">>
  /\ checks["dmp_referenced"].found
  /\ RLt(Rat(3, 10), checks["dmp_referenced"].confidence)
  /\ ~checks["trl_mentioned"].found
  /\ checks["trl_mentioned"].confidence = Zero
  /\ ~checks["kpi_table"].found
  /\ checks["kpi_table"].evidence = <<>>

\* C23: every detection is backed by evidence: whenever a check returns
\* found = true (confidence > 0), its evidence list holds at least one
\* snippet.
C23_DetectionHasEvidence ==
  call # NoCall =>
    (call.result.found => Len(call.result.evidence) >= 1)

-----------------------------------------------------------------------------
(* The editor page, app/editor/[draftId]/page.tsx *)

\* page.tsx:197, Regenerate asks before overwriting more than this many characters
ConfirmAbove == 100

\* page.tsx:449, the Review button is disabled below this many words
MinReviewWords == 50

\* the route parameters the editor is opened with
EditorIds == {"d1"}
WizardIds == {NoWizard, "w1"}

Words(count, length) == [i \in 1..count |-> length]

\* what the user leaves in the textarea: 100 characters in 2 words, 149
\* characters in 50 words, or nothing
TypedTexts ==
  {[pad |-> 0, words |-> <<50, 49>>, tail |-> 0],
   [pad |-> 0, words |-> Words(50, 2), tail |-> 1],
   EmptyText}

\* result.draftMarkdown of generateDraft and data.improvedContent of /api/improve
GeneratedText == [pad |-> 0, words |-> Words(60, 3), tail |-> 1]
ImprovedText == [pad |-> 0, words |-> Words(60, 4), tail |-> 0]

TypedTitles == {"Typed title"}

\* page.tsx:156-160, the title of a wizard session with or without a fullTitle
WizardTitle(named) == IF named THEN "ACRONYM - Full title" ELSE "New proposal"
WizardScheme == "horizon_europe_csa"

\* page.tsx:174-183 and 325-334: the Draft the page hands to saveDraft; it has
\* no status
EditorDraft(ed, text, titleVal, scheme) ==
  [draftId |-> ed.draftId, title |-> titleVal, schemeId |-> scheme,
   content |-> text, wordCount |-> wordCount(text), createdAt |-> 0,
   updatedAt |-> 0,
   wizardId |-> IF ed.wizardId = NoWizard THEN Undefined ELSE ed.wizardId,
   status |-> Undefined]

\* page.tsx:169-188: scheduleSave(text, titleVal) of the render whose
\* schemeId is scheme: the pending timer is replaced
scheduleSave(ed, text, titleVal, scheme) ==
  [ed EXCEPT !.saveStatus = "unsaved",
             !.timer = <<[text |-> text, titleVal |-> titleVal, schemeId |-> scheme]>>]

\* what an async handler keeps of the render it was started from
RequestOf(kind, ed, user, confirmed) ==
  [kind |-> kind, title |-> ed.title, schemeId |-> ed.schemeId,
   user |-> user, confirmed |-> confirmed]

\* page.tsx:144-167: the page of draftId mounts; the wizard session of the
\* address, if any, has a fullTitle or not
OpenEditor(draftId, urlWizardId, named) ==
  /\ ~editor.mounted
  /\ editor.timer = <<>>
  /\ editor.requests = {}
  /\ LET existing == loadDraft(storage, draftId)
         fresh    == [EditorClosed EXCEPT !.mounted = TRUE, !.draftId = draftId,
                                          !.wizardId = urlWizardId,
                                          !.event = [op |-> "other"]]
     IN  editor' =
           IF existing # Null
           THEN [fresh EXCEPT !.content = existing.props.content,
                              !.title = existing.props.title,
                              !.schemeId = existing.props.schemeId,
                              !.draftStatus = existing.props.status,
                              !.wizardId =
                                 IF existing.props.wizardId # Undefined /\ urlWizardId = NoWizard
                                 THEN existing.props.wizardId ELSE urlWizardId]
           ELSE IF urlWizardId # NoWizard
           THEN [fresh EXCEPT !.title = WizardTitle(named),
                              !.schemeId = WizardScheme,
                              !.generating = TRUE,
                              !.requests = {RequestOf("generate", fresh, FALSE, FALSE)}]
           ELSE fresh
  /\ UNCHANGED <<storage, clock, storeCall, page, fetches, improve, reviewerVars>>

\* page.tsx:190-193
HandleContentChange(text) ==
  /\ editor.mounted
  /\ editor' = [scheduleSave([editor EXCEPT !.content = text], text, editor.title,
                             editor.schemeId)
                  EXCEPT !.event = [op |-> "other"]]
  /\ UNCHANGED <<storage, clock, storeCall, page, fetches, improve, reviewerVars>>

\* page.tsx:354-360, the title input
HandleTitleChange(value) ==
  /\ editor.mounted
  /\ editor' = [scheduleSave([editor EXCEPT !.title = value], editor.content, value,
                             editor.schemeId)
                  EXCEPT !.event = [op |-> "other"]]
  /\ UNCHANGED <<storage, clock, storeCall, page, fetches, improve, reviewerVars>>

\* page.tsx:195-211 and 392-397: a click on Regenerate, up to the await; answer
\* is what the user tells window.confirm if it is shown
HandleGenerate(answer) ==
  /\ editor.mounted
  /\ ~editor.generating
  /\ LET asked == TrimmedLength(editor.content) > ConfirmAbove
     IN  editor' =
           IF asked /\ ~answer
           THEN [editor EXCEPT !.event = [op |-> "declined", kind |-> "generate"]]
           ELSE IF editor.wizardId = NoWizard
           THEN [editor EXCEPT !.event = [op |-> "alert"]]
           ELSE [editor EXCEPT
                   !.generating = TRUE,
                   !.requests = @ \cup {RequestOf("generate", editor, TRUE, asked)},
                   !.event = [op |-> "request"]]
  /\ UNCHANGED <<storage, clock, storeCall, page, fetches, improve, reviewerVars>>

\* page.tsx:211-222: generateDraft settles
GenerateSettles(ok) ==
  /\ \E r \in editor.requests :
       /\ r.kind = "generate"
       /\ editor' =
            IF ok
            THEN [scheduleSave([editor EXCEPT !.content = GeneratedText],
                               GeneratedText, r.title, r.schemeId)
                    EXCEPT !.generating = FALSE,
                           !.requests = @ \ {r},
                           !.event = [op |-> "replaced", kind |-> "generate",
                                      user |-> r.user, confirmed |-> r.confirmed,
                                      overwrote |-> TrimmedLength(editor.content) > 0,
                                      racing |-> editor.requests # {r},
                                      shown |-> editor.mounted]]
            ELSE [editor EXCEPT !.generating = FALSE,
                                !.requests = @ \ {r},
                                !.event = [op |-> "alert"]]
  /\ UNCHANGED <<storage, clock, storeCall, page, fetches, improve, reviewerVars>>

\* page.tsx:281-296 and 408-413: a click on Polish, up to the fetch
HandleImprove(configured, answer) ==
  /\ editor.mounted
  /\ ~(editor.improving \/ editor.generating)
  /\ editor' =
       IF ~configured \/ TrimmedLength(editor.content) < MinImproveChars
       THEN [editor EXCEPT !.event = [op |-> "alert"]]
       ELSE IF ~answer
       THEN [editor EXCEPT !.event = [op |-> "declined", kind |-> "improve"]]
       ELSE [editor EXCEPT
               !.improving = TRUE,
               !.requests = @ \cup {RequestOf("improve", editor, TRUE, TRUE)},
               !.event = [op |-> "request"]]
  /\ UNCHANGED <<storage, clock, storeCall, page, fetches, improve, reviewerVars>>

\* page.tsx:297-315: the response of /api/improve arrives, OK or not
ImproveSettles(ok) ==
  /\ \E r \in editor.requests :
       /\ r.kind = "improve"
       /\ editor' =
            IF ok
            THEN [scheduleSave([editor EXCEPT !.content = ImprovedText],
                               ImprovedText, r.title, r.schemeId)
                    EXCEPT !.improving = FALSE,
                           !.requests = @ \ {r},
                           !.event = [op |-> "replaced", kind |-> "improve",
                                      user |-> r.user, confirmed |-> r.confirmed,
                                      overwrote |-> TrimmedLength(editor.content) > 0,
                                      racing |-> editor.requests # {r},
                                      shown |-> editor.mounted]]
            ELSE [editor EXCEPT !.improving = FALSE,
                                !.requests = @ \ {r},
                                !.event = [op |-> "alert"]]
  /\ UNCHANGED <<storage, clock, storeCall, page, fetches, improve, reviewerVars>>

\* page.tsx:172-185: the timer of scheduleSave fires
AutosaveFires ==
  /\ editor.timer # <<>>
  /\ clock <= MaxClock
  /\ LET t == editor.timer[1]
         d == EditorDraft(editor, t.text, t.titleVal, t.schemeId)
     IN  /\ storage' = saveDraft(storage, d, clock)
         /\ storeCall' = [op |-> "saveDraft", draft |-> d, at |-> clock]
  /\ clock' = clock + 1
  /\ editor' = [editor EXCEPT !.timer = <<>>, !.saveStatus = "saved",
                              !.event = [op |-> "autosave"]]
  /\ UNCHANGED <<page, fetches, improve, reviewerVars>>

\* page.tsx:318-322
HandleToggleComplete ==
  /\ editor.mounted
  /\ clock <= MaxClock
  /\ LET next == IF editor.draftStatus = "completed" THEN "in-progress" ELSE "completed"
     IN  /\ storage' = setDraftStatus(storage, editor.draftId, next, clock)
         /\ storeCall' = [op |-> "setDraftStatus", draftId |-> editor.draftId,
                          status |-> next, at |-> clock]
         /\ editor' = [editor EXCEPT !.draftStatus = next, !.event = [op |-> "other"]]
  /\ clock' = clock + 1
  /\ UNCHANGED <<page, fetches, improve, reviewerVars>>

\* page.tsx:324-336 and 446-449: the draft is saved and the router leaves for
\* the review page; the timer and the requests of the page left behind go on
HandleReview ==
  /\ editor.mounted
  /\ wordCount(editor.content) >= MinReviewWords
  /\ clock <= MaxClock
  /\ LET d == EditorDraft(editor, editor.content, editor.title, editor.schemeId)
     IN  /\ storage' = saveDraft(storage, d, clock)
         /\ storeCall' = [op |-> "saveDraft", draft |-> d, at |-> clock]
  /\ clock' = clock + 1
  /\ editor' = [editor EXCEPT !.mounted = FALSE, !.event = [op |-> "review"]]
  /\ UNCHANGED <<page, fetches, improve, reviewerVars>>

NextEditor ==
  \/ \E id \in EditorIds, wid \in WizardIds, named \in BOOLEAN : OpenEditor(id, wid, named)
  \/ \E text \in TypedTexts : HandleContentChange(text)
  \/ \E value \in TypedTitles : HandleTitleChange(value)
  \/ \E answer \in BOOLEAN : HandleGenerate(answer)
  \/ \E ok \in BOOLEAN : GenerateSettles(ok)
  \/ \E configured, answer \in BOOLEAN : HandleImprove(configured, answer)
  \/ \E ok \in BOOLEAN : ImproveSettles(ok)
  \/ AutosaveFires
  \/ HandleToggleComplete
  \/ HandleReview

SpecEditor == Init /\ [][NextEditor]_vars

-----------------------------------------------------------------------------
(* Claims about the editor page *)

\* C21: Regenerate asks before it overwrites: whenever a Regenerate the user
\* triggered replaces existing content in the editor, the user confirmed it
\* beforehand (a declined confirmation sends no request and changes nothing).
C21_RegenerateAsksFirst ==
  (/\ editor.event.op = "replaced"
   /\ editor.event.kind = "generate"
   /\ editor.event.user
   /\ editor.event.shown
   /\ editor.event.overwrote) => editor.event.confirmed

\* the draft of draftId is stored with status 'completed', record and index entry
CompletedInStore(store, draftId) ==
  LET record == loadDraft(store, draftId)
      index  == loadDraftIndex(store)
      entry  == FindIndex(index.items, draftId)
  IN  /\ record # Null
      /\ record.props.status = "completed"
      /\ entry > 0
      /\ index.items[entry].status = "completed"

\* C24: a draft marked completed stays completed until it is reopened: the
\* stored record and its index entry keep status 'completed' through every
\* later autosave and Review save, until setDraftStatus(id, 'in-progress').
C24_CompletedUntilReopened ==
  [][\A id \in EditorIds :
       (CompletedInStore(storage, id) /\ ~CompletedInStore(storage', id)) =>
          /\ storeCall'.op = "setDraftStatus"
          /\ storeCall'.draftId = id
          /\ storeCall'.status = "in-progress"]_vars

\* C25: once the autosave has fired and saveStatus shows 'saved', the stored
\* draft has the content and the title the editor shows.
C25_SavedMeansStoredIsShown ==
  (/\ editor.mounted
   /\ editor.event.op = "autosave"
   /\ editor.saveStatus = "saved") =>
     LET stored == loadDraft(storage, editor.draftId)
     IN  /\ stored # Null
         /\ stored.props.content = editor.content
         /\ stored.props.title = editor.title

\* C26: at most one content-replacing request (Regenerate or Polish) is in
\* flight at any time, so no response overwrites the content while a request
\* started concurrently is still to answer.
C26_OneRequestInFlight ==
  /\ Cardinality(editor.requests) <= 1
  /\ editor.event.op = "replaced" => ~editor.event.racing
====
